---- MODULE Spec2Model ----
(***************************************************************************)
(* Workflow orchestration engine of the Atlan support agent.               *)
(*                                                                         *)
(* The compiled LangGraph graph of src/src/workflow.py is modelled as the  *)
(* state machine its edges define: the three classification nodes run in   *)
(* one superstep, their writes are folded into the channel values when the *)
(* superstep ends, validate_topic runs in the next superstep, and the      *)
(* conditional edge selects retrieve_docs -> generate_answer or            *)
(* create_ticket.  The MemorySaver checkpoint of a thread holds the        *)
(* channel values saved after each superstep; an invocation starts from    *)
(* the checkpoint of its thread with the input written over it.            *)
(*                                                                         *)
(* A state (AgentState, a total=False TypedDict) is a function whose       *)
(* domain is the set of keys present.                                      *)
(***************************************************************************)
EXTENDS Naturals, Integers, Sequences, FiniteSets, TLC

(* ---------------------------------------------------------------------- *)
(* Bounds of the model                                                     *)
(* ---------------------------------------------------------------------- *)
\* invocations of the workflow made on the one conversation of Spec
MaxInvocations == 2
\* how many of the topic labels the classify capability may answer with
NumTopics == 3
\* Raise Ticket is not clicked once uuid4 has given this many tokens
MaxTokens == 2
\* invocations made on each of the two conversations of SpecThreads
MaxInvocationsEach == 1
\* length of the longest text the generation capability answers with when
\* create_ticket is applied on its own
MaxTextLen == 203

(* ---------------------------------------------------------------------- *)
(* Dictionaries                                                            *)
(* ---------------------------------------------------------------------- *)
EmptyDict == [k \in {} |-> TRUE]

Upd1(key, val) == [k \in {key} |-> val]

Has(s, key) == key \in DOMAIN s

Get(s, key, default) == IF key \in DOMAIN s THEN s[key] ELSE default

\* dict.update / the engine's fold of a partial update into the channels
Merge(s, u) ==
    [k \in (DOMAIN s) \cup (DOMAIN u) |-> IF k \in DOMAIN u THEN u[k] ELSE s[k]]

Without(s, keys) == [k \in (DOMAIN s) \ keys |-> s[k]]

Restrict(s, keys) == [k \in (DOMAIN s) \cap keys |-> s[k]]

(* ---------------------------------------------------------------------- *)
(* Label enumerations and value shapes                                     *)
(* ---------------------------------------------------------------------- *)
TopicSeq ==
    << "SSO", "unclear", "Connector", "How-to", "Product", "Lineage", "API/SDK",
       "Glossary", "Best practices", "Sensitive data", "out_of_scope" >>

TopicLabels == { TopicSeq[i] : i \in 1..Len(TopicSeq) }

SentimentLabels == { "Frustrated", "Neutral", "Curious", "Angry" }

PriorityLabels == { "P0", "P1", "P2" }

\* A field value of any shape the code inspects: a pydantic object with a
\* label attribute ("obj"), a mapping with a label key ("dict"), a mapping
\* without one ("dict_nolabel"), a raw string ("str", label is the string),
\* None ("none").  hashable is FALSE when the label is a list or a mapping.
Val(kind, label, hashable) == [kind |-> kind, label |-> label, hashable |-> hashable]

Obj(label) == Val("obj", label, TRUE)

NoneVal == Val("none", "", TRUE)

\* an outcome of a capability call that raised instead of returning
Raised == Val("raise", "", TRUE)

\* Python truthiness of a value of these shapes
Truthy(v) ==
    CASE v.kind = "none" -> FALSE
      [] v.kind = "raise" -> FALSE
      [] v.kind = "str" -> v.label # ""
      [] v.kind = "dict_nolabel" -> FALSE
      [] OTHER -> TRUE

\* str(x) of a value of these shapes
PyStr(v) ==
    CASE v.kind = "str" -> v.label
      [] v.kind = "none" -> "None"
      [] OTHER -> "<repr>"

(* ---------------------------------------------------------------------- *)
(* llm.py                                                                  *)
(* ---------------------------------------------------------------------- *)
\* try: return llm_structured.invoke(prompt)  except Exception: return None
safe_invoke_structured(outcome) == IF outcome.kind = "raise" THEN NoneVal ELSE outcome

(* ---------------------------------------------------------------------- *)
(* The classification nodes.  Each returns its partial update and the set  *)
(* of capabilities it called.                                              *)
(* ---------------------------------------------------------------------- *)
NodeResult(upd, called) == [upd |-> upd, called |-> called, raised |-> FALSE]

\* the node let an exception escape
NodeRaise(called) == [upd |-> EmptyDict, called |-> called, raised |-> TRUE]

sentiment_analysis(state, outcome) ==
    LET message == Get(state, "message", "")
        result == safe_invoke_structured(outcome)
    IN  IF message = "" THEN NodeResult(EmptyDict, {})
        ELSE IF Truthy(result) THEN NodeResult(Upd1("sentiment", result), {"sentiment_llm"})
        ELSE NodeResult(EmptyDict, {"sentiment_llm"})

\* a classifier that also writes the verdict of the gate
topic_classification_WritesVerdict(state, outcome) ==
    LET message == Get(state, "message", "")
        result == safe_invoke_structured(outcome)
    IN  IF message = "" THEN NodeResult(EmptyDict, {})
        ELSE IF Truthy(result)
        THEN NodeResult(Merge(Upd1("topic", result), Upd1("is_topic_valid", TRUE)),
                        {"topic_llm"})
        ELSE NodeResult(EmptyDict, {"topic_llm"})

topic_classification(state, outcome) ==
    LET message == Get(state, "message", "")
        result == safe_invoke_structured(outcome)
    IN  IF message = "" THEN NodeResult(EmptyDict, {})
        ELSE IF Truthy(result) THEN NodeResult(Upd1("topic", result), {"topic_llm"})
        ELSE NodeResult(EmptyDict, {"topic_llm"})

priority_classification(state, outcome) ==
    LET message == Get(state, "message", "")
        result == safe_invoke_structured(outcome)
    IN  IF message = "" THEN NodeResult(EmptyDict, {})
        ELSE IF Truthy(result) THEN NodeResult(Upd1("priority", result), {"priority_llm"})
        ELSE NodeResult(EmptyDict, {"priority_llm"})

(* ---------------------------------------------------------------------- *)
(* The gate and the routing function                                       *)
(* ---------------------------------------------------------------------- *)
valid_topics == { "How-to", "Product", "Best practices", "API/SDK", "SSO" }

\* state.get("topic", "")
DefaultTopic == Val("str", "", TRUE)

\* a gate that also rewrites the topic as the label it read
validate_topic_NormalisesTopic(state) ==
    LET topic_obj == Get(state, "topic", DefaultTopic)
        has_label == topic_obj.kind \in {"obj", "dict"}
        topic_label == IF has_label THEN topic_obj.label ELSE PyStr(topic_obj)
    IN  IF has_label /\ ~topic_obj.hashable THEN NodeRaise({})
        ELSE NodeResult(Merge(Upd1("is_topic_valid", topic_label \in valid_topics),
                              Upd1("topic", Val("str", topic_label, TRUE))), {})

\* the label validate_topic extracts from the topic field: the label
\* attribute, the label key of a mapping, str(topic_obj) otherwise
gate_topic_label(state) ==
    LET topic_obj == Get(state, "topic", DefaultTopic)
    IN  IF topic_obj.kind \in {"obj", "dict"} THEN topic_obj.label ELSE PyStr(topic_obj)

validate_topic(state) ==
    LET topic_obj == Get(state, "topic", DefaultTopic)
        has_label == topic_obj.kind \in {"obj", "dict"}
        topic_label == gate_topic_label(state)
    IN  \* `x in set` hashes x: a list or mapping label raises TypeError
        IF has_label /\ ~topic_obj.hashable THEN NodeRaise({})
        ELSE NodeResult(Upd1("is_topic_valid", topic_label \in valid_topics), {})

\* the two outcomes swapped
routing_function_Swapped(state) ==
    IF Get(state, "is_topic_valid", FALSE) = TRUE THEN "invalid" ELSE "valid"

\* a routing that takes a missing verdict for a valid one
routing_function_AbsentIsValid(state) ==
    IF Get(state, "is_topic_valid", TRUE) = TRUE THEN "valid" ELSE "invalid"

\* "valid" if state.get("is_topic_valid") else "invalid": state.get gives
\* None for a key that is absent as for a key that holds None, and None is
\* not truthy
routing_function(state) ==
    IF Get(state, "is_topic_valid", FALSE) = TRUE THEN "valid" ELSE "invalid"

\* both outcomes mapped to the answer stage
path_map_AlwaysAnswer(decision) == "retrieve_docs"

path_map(decision) == IF decision = "valid" THEN "retrieve_docs" ELSE "create_ticket"

(* ---------------------------------------------------------------------- *)
(* The answer stage                                                        *)
(* ---------------------------------------------------------------------- *)
NoMessageAnswer == "No message provided."

GenerationFailedAnswer ==
    "Sorry, I couldn't generate an answer right now. Please try again later."

\* outcome of retriever.get_relevant_documents: it raised, or a sequence of
\* documents
RetrRaise == [raised |-> TRUE, docs |-> << >>]

RetrDocs(docs) == [raised |-> FALSE, docs |-> docs]

\* a retrieval that does not look at the message first
retrieve_docs_NoEmptyCheck(state, retr) ==
    IF retr.raised THEN NodeResult(Upd1("docs", << >>), {"retriever"})
    ELSE NodeResult(Upd1("docs", retr.docs), {"retriever"})

retrieve_docs(state, retr) ==
    LET message == Get(state, "message", "")
    IN  IF message = "" THEN NodeResult(EmptyDict, {})
        ELSE IF retr.raised THEN NodeResult(Upd1("docs", << >>), {"retriever"})
        ELSE NodeResult(Upd1("docs", retr.docs), {"retriever"})

\* RetrievalQA(...)({"query": message}): the chain retrieves, then generates;
\* an exception of either step leaves the chain
GenRaise == [raised |-> TRUE, text |-> ""]

GenText(text) == [raised |-> FALSE, text |-> text]

RetrievalQA(retr, gen) ==
    IF retr.raised THEN [raised |-> TRUE, result |-> "", source_documents |-> << >>,
                         called |-> {"retriever"}]
    ELSE IF gen.raised THEN [raised |-> TRUE, result |-> "", source_documents |-> << >>,
                             called |-> {"retriever", "llm"}]
    ELSE [raised |-> FALSE, result |-> gen.text, source_documents |-> retr.docs,
          called |-> {"retriever", "llm"}]

\* outcome of the escalation judge: an EscalationSchema object, None, or raised
Judge(escalate, explanation) ==
    [kind |-> "obj", escalate |-> escalate, explanation |-> explanation]

JudgeNone == [kind |-> "none", escalate |-> FALSE, explanation |-> ""]

JudgeRaise == [kind |-> "raise", escalate |-> FALSE, explanation |-> ""]

\* an exception of the judge reaches the except branch of generate_answer
generate_answer_JudgeFailureFails(state, retr, gen, judge) ==
    LET message == Get(state, "message", "")
        result == RetrievalQA(retr, gen)
        ok == judge.kind = "obj"
    IN  IF message = "" THEN NodeResult(Upd1("answer", NoMessageAnswer), {})
        ELSE IF result.raised
        THEN NodeResult(Upd1("answer", GenerationFailedAnswer), result.called)
        ELSE IF judge.kind = "raise"
        THEN NodeResult(Upd1("answer", GenerationFailedAnswer),
                        result.called \cup {"escalation_llm"})
        ELSE NodeResult(
                 Merge(Merge(Upd1("answer", result.result),
                             Upd1("docs", result.source_documents)),
                       Merge(Upd1("needs_ticket_offer", IF ok THEN judge.escalate ELSE FALSE),
                             Upd1("escalation_reason", IF ok THEN judge.explanation ELSE ""))),
                 result.called \cup {"escalation_llm"})

\* a failure branch that also withdraws the ticket offer
generate_answer_FailureClearsOffer(state, retr, gen, judge) ==
    LET message == Get(state, "message", "")
        result == RetrievalQA(retr, gen)
        escalation_result == IF judge.kind = "raise" THEN JudgeNone ELSE judge
        ok == escalation_result.kind = "obj"
    IN  IF message = "" THEN NodeResult(Upd1("answer", NoMessageAnswer), {})
        ELSE IF result.raised
        THEN NodeResult(Merge(Upd1("answer", GenerationFailedAnswer),
                              Upd1("needs_ticket_offer", FALSE)), result.called)
        ELSE NodeResult(
                 Merge(Merge(Upd1("answer", result.result),
                             Upd1("docs", result.source_documents)),
                       Merge(Upd1("needs_ticket_offer",
                                  IF ok THEN escalation_result.escalate ELSE FALSE),
                             Upd1("escalation_reason",
                                  IF ok THEN escalation_result.explanation ELSE ""))),
                 result.called \cup {"escalation_llm"})

generate_answer(state, retr, gen, judge) ==
    LET message == Get(state, "message", "")
        result == RetrievalQA(retr, gen)
        escalation_result == IF judge.kind = "raise" THEN JudgeNone ELSE judge
        ok == escalation_result.kind = "obj"
        needs_ticket_offer == IF ok THEN escalation_result.escalate ELSE FALSE
        escalation_reason == IF ok THEN escalation_result.explanation ELSE ""
    IN  IF message = "" THEN NodeResult(Upd1("answer", NoMessageAnswer), {})
        ELSE IF result.raised
        THEN NodeResult(Upd1("answer", GenerationFailedAnswer), result.called)
        ELSE NodeResult(
                 Merge(Merge(Upd1("answer", result.result),
                             Upd1("docs", result.source_documents)),
                       Merge(Upd1("needs_ticket_offer", needs_ticket_offer),
                             Upd1("escalation_reason", escalation_reason))),
                 result.called \cup {"escalation_llm"})

(* ---------------------------------------------------------------------- *)
(* ticketing.py.  Texts are sequences of one-character strings.            *)
(* ---------------------------------------------------------------------- *)
SubjectMax == 200

SupportRequest ==
    << "S", "u", "p", "p", "o", "r", "t", " ", "r", "e", "q", "u", "e", "s", "t" >>

\* str(result) of a message object whose content is empty
MessageRepr == << "c", "o", "n", "t", "e", "n", "t", "=", "'", "'" >>

IsSpace(c) == c \in { " ", "\n", "\t", "\r" }

\* the least and the greatest of a set of positions
First(idx) == CHOOSE i \in idx : \A j \in idx : i <= j

Last(idx) == CHOOSE i \in idx : \A j \in idx : j <= i

\* str.lstrip(): from the first character that is not white space
LStrip(s) ==
    LET idx == { i \in 1..Len(s) : ~IsSpace(s[i]) }
    IN  IF idx = {} THEN << >> ELSE SubSeq(s, First(idx), Len(s))

\* str.rstrip(): up to the last character that is not white space
RStrip(s) ==
    LET idx == { i \in 1..Len(s) : ~IsSpace(s[i]) }
    IN  IF idx = {} THEN << >> ELSE SubSeq(s, 1, Last(idx))

\* str.strip()
Strip(s) == RStrip(LStrip(s))

\* s.split("\n")[0]: the text before the first "\n", all of s without one
FirstLine(s) ==
    LET idx == { i \in 1..Len(s) : s[i] = "\n" }
    IN  IF idx = {} THEN s ELSE SubSeq(s, 1, First(idx) - 1)

\* a slice without its limit
Take_Unbounded(s, n) == s

\* s[:n]
Take(s, n) == SubSeq(s, 1, IF Len(s) < n THEN Len(s) ELSE n)

\* outcome of llm.invoke(prompt): it raised, or a message whose content is a
\* text (is_text) or a list of content blocks
TextRaise == [kind |-> "raise", content |-> << >>, is_text |-> TRUE]

TextMsg(content) == [kind |-> "msg", content |-> content, is_text |-> TRUE]

BlocksMsg == [kind |-> "msg", content |-> << "block" >>, is_text |-> FALSE]

\* llm.invoke returned None
TextNone == [kind |-> "none", content |-> << >>, is_text |-> TRUE]

\* a wrapper that hands on whatever the call did
safe_invoke_text_Unguarded(outcome) == outcome

\* try: return llm.invoke(prompt)  except Exception: return None
safe_invoke_text(outcome) ==
    IF outcome.kind = "raise" THEN [kind |-> "none", content |-> << >>, is_text |-> TRUE]
    ELSE outcome

\* [raised, subject]: list content has no strip(), the call raises
generate_subject_from_query(query, outcome) ==
    LET result == safe_invoke_text(outcome)
        text == IF result.content # << >> THEN result.content ELSE MessageRepr
    IN  IF result.kind = "none" THEN [raised |-> FALSE, subject |-> SupportRequest]
        ELSE IF result.content # << >> /\ ~result.is_text
        THEN [raised |-> TRUE, subject |-> << >>]
        ELSE [raised |-> FALSE, subject |-> Take(FirstLine(Strip(text)), SubjectMax)]

\* outcome of db.insert_ticket: the display id, or None when the insert raised
InsertFailed == [ok |-> FALSE]

InsertOk == [ok |-> TRUE]

insert_ticket(ins, seq) == IF ins.ok THEN << "TICKET-", seq >> ELSE << >>

\* an extraction that knows the label attribute only
get_label_AttributeOnly(state, key, default) ==
    LET obj == Get(state, key, NoneVal)
    IN  IF obj.kind = "none" THEN default
        ELSE IF obj.kind = "obj" THEN obj.label
        ELSE default

\* get_label(state.get(key), default)
get_label(state, key, default) ==
    LET obj == Get(state, key, NoneVal)
    IN  IF obj.kind = "none" THEN default
        ELSE IF obj.kind \in {"obj", "dict"} THEN obj.label
        ELSE default

TicketFields ==
    { "ticket_id", "ticket_topic", "ticket_query", "ticket_sentiment",
      "ticket_priority", "ticket_subject", "ticket_message" }

\* the source text has an em dash where this has "--"
StoreFailedAnswer == "Sorry -- failed to create ticket due to a server error."

\* a rendering that leaves the priority out
RenderTicketMessage_NoPriority(display_id, topic, query, priority) ==
    << << "Ticket Created" >>, << "ID:" >>, display_id, << "Topic:" >>, << topic >>,
       << "Query:" >>, << query >> >>

\* the f-string of ticket_message: the parts it is made of, in order (the
\* display id is itself the pair of the store's prefix and number)
RenderTicketMessage(display_id, topic, query, priority) ==
    << << "Ticket Created" >>, << "ID:" >>, display_id, << "Topic:" >>, << topic >>,
       << "Query:" >>, << query >>, << "Priority:" >>, << priority >> >>

\* the store's answer is not looked at: the ticket fields are set even when
\* the insert returned no display id
create_ticket_IgnoresStore(state, ticket_id, subj, ins, seq) ==
    LET user_query == Get(state, "message", "No query provided.")
        topic == get_label(state, "topic", "General")
        sentiment == get_label(state, "sentiment", "Neutral")
        priority == get_label(state, "priority", "P2")
        s == generate_subject_from_query(user_query, subj)
        row == [ticket_id |-> ticket_id, topic |-> topic, query |-> user_query,
                sentiment |-> sentiment, priority |-> priority, subject |-> s.subject]
        display_id == insert_ticket(ins, seq)
        failed == IF display_id = << >> THEN Upd1("answer", StoreFailedAnswer) ELSE EmptyDict
        fields == [k \in TicketFields |->
                     CASE k = "ticket_id" -> ticket_id
                       [] k = "ticket_topic" -> topic
                       [] k = "ticket_query" -> user_query
                       [] k = "ticket_sentiment" -> sentiment
                       [] k = "ticket_priority" -> priority
                       [] k = "ticket_subject" -> s.subject
                       [] OTHER -> RenderTicketMessage(display_id, topic, user_query, priority)]
    IN  IF s.raised
        THEN [raised |-> TRUE, state |-> state, called |-> {"llm"}, inserted |-> FALSE,
              row |-> row, display_id |-> << >>]
        ELSE [raised |-> FALSE, state |-> Merge(Merge(state, fields), failed),
              called |-> {"llm", "insert_ticket"}, inserted |-> display_id # << >>,
              row |-> row, display_id |-> display_id]

\* create_ticket(state): [raised, state, called, row, display_id].  ticket_id
\* is the fresh token, seq the value the store's sequence gives the row.
create_ticket(state, ticket_id, subj, ins, seq) ==
    LET user_query == Get(state, "message", "No query provided.")
        topic == get_label(state, "topic", "General")
        sentiment == get_label(state, "sentiment", "Neutral")
        priority == get_label(state, "priority", "P2")
        s == generate_subject_from_query(user_query, subj)
        subject == s.subject
        row == [ticket_id |-> ticket_id, topic |-> topic, query |-> user_query,
                sentiment |-> sentiment, priority |-> priority, subject |-> subject]
        display_id == insert_ticket(ins, seq)
        fields == [k \in TicketFields |->
                     CASE k = "ticket_id" -> ticket_id
                       [] k = "ticket_topic" -> topic
                       [] k = "ticket_query" -> user_query
                       [] k = "ticket_sentiment" -> sentiment
                       [] k = "ticket_priority" -> priority
                       [] k = "ticket_subject" -> subject
                       [] OTHER -> RenderTicketMessage(display_id, topic, user_query, priority)]
    IN  IF s.raised
        THEN [raised |-> TRUE, state |-> state, called |-> {"llm"}, inserted |-> FALSE,
              row |-> row, display_id |-> << >>]
        ELSE IF display_id = << >>
        THEN [raised |-> FALSE, state |-> Merge(state, Upd1("answer", StoreFailedAnswer)),
              called |-> {"llm", "insert_ticket"}, inserted |-> FALSE,
              row |-> row, display_id |-> display_id]
        ELSE [raised |-> FALSE, state |-> Merge(state, fields),
              called |-> {"llm", "insert_ticket"}, inserted |-> TRUE,
              row |-> row, display_id |-> display_id]

NodeFailedAnswer == "Failed to create ticket due to server error."

\* what an execution of create_ticket did, for the properties: its outcome,
\* the answer and ticket fields of the state it was given, the capabilities
\* it called, the row it passed to the store and the display id the store
\* returned
TicketLog(c, given) ==
    [outcome |-> IF c.raised THEN "raised"
                 ELSE IF c.inserted THEN "created" ELSE "store_failed",
     before |-> Restrict(given, TicketFields \cup {"answer"}),
     called |-> c.called,
     row |-> c.row,
     display_id |-> c.display_id]

\* a node that reports the ticket in answer as well
create_ticket_node_AnnouncesTicket(state, ticket_id, subj, ins, seq) ==
    LET r == create_ticket(state, ticket_id, subj, ins, seq)
    IN  IF r.raised THEN NodeResult(Upd1("answer", NodeFailedAnswer), r.called)
        ELSE NodeResult(Merge(r.state, Upd1("answer", "Ticket created.")), r.called)

\* a node that swallows the exception and reports nothing
create_ticket_node_KeepsSilent(state, ticket_id, subj, ins, seq) ==
    LET r == create_ticket(state, ticket_id, subj, ins, seq)
    IN  IF r.raised THEN NodeResult(EmptyDict, r.called)
        ELSE NodeResult(r.state, r.called)

create_ticket_node(state, ticket_id, subj, ins, seq) ==
    LET r == create_ticket(state, ticket_id, subj, ins, seq)
    IN  IF r.raised THEN NodeResult(Upd1("answer", NodeFailedAnswer), r.called)
        ELSE NodeResult(r.state, r.called)

(* ---------------------------------------------------------------------- *)
(* Inputs of the environment                                               *)
(* ---------------------------------------------------------------------- *)
Threads == { "t1", "t2" }

\* the text of the i-th query made on a conversation
MessageSeq == << "m1", "m2", "m3", "m4" >>

\* the messages the next invocation may carry when `left` invocations remain
Messages(left) ==
    { "" } \cup { MessageSeq[i] : i \in { j \in 1..Len(MessageSeq) : j = MaxInvocations - left + 1 } }

TopicOutcomes ==
    { Raised, NoneVal }
      \cup { Obj(TopicSeq[i]) : i \in { j \in 1..Len(TopicSeq) : j <= NumTopics } }

SentimentOutcomes == { Raised, NoneVal, Obj("Angry") }

PriorityOutcomes == { Raised, NoneVal, Obj("P0") }

RetrOutcomes == { RetrRaise, RetrDocs(<< >>), RetrDocs(<< "d1", "d2" >>) }

GenOutcomes == { GenRaise, GenText("A") }

JudgeOutcomes == { JudgeRaise, JudgeNone, Judge(TRUE, "why"), Judge(FALSE, "") }

SubjOutcomes == { TextRaise, BlocksMsg, TextMsg(<< " ", "S", "\n", "x" >>) }

InsOutcomes == { InsertFailed, InsertOk }

(* ---------------------------------------------------------------------- *)
(* The graph                                                               *)
(* ---------------------------------------------------------------------- *)
Units == { "sentiment_analysis", "topic_classification", "priority_classification" }

Nodes == Units \cup { "validate_topic", "retrieve_docs", "generate_answer", "create_ticket" }

Capabilities ==
    { "sentiment_llm", "topic_llm", "priority_llm", "retriever", "llm",
      "escalation_llm", "insert_ticket" }

UnitField(u) ==
    CASE u = "sentiment_analysis" -> "sentiment"
      [] u = "topic_classification" -> "topic"
      [] OTHER -> "priority"

UnitOutcomes(u) ==
    CASE u = "sentiment_analysis" -> SentimentOutcomes
      [] u = "topic_classification" -> TopicOutcomes
      [] OTHER -> PriorityOutcomes

\* graph.add_node: the function registered under each classification node
UnitNode(u, state, outcome) ==
    CASE u = "sentiment_analysis" -> sentiment_analysis(state, outcome)
      [] u = "topic_classification" -> topic_classification(state, outcome)
      [] OTHER -> priority_classification(state, outcome)

VARIABLES
    checkpoint,   \* MemorySaver: thread id -> channel values last saved
    pc,           \* thread id -> "idle" or the node(s) the invocation runs next
    st,           \* thread id -> channel values of the running invocation
    pend,         \* thread id -> writes of the classification nodes that finished
    ran,          \* thread id -> node -> executions in the current invocation
    calls,        \* thread id -> capability -> calls in the current invocation
    base,         \* thread id -> checkpoint the current invocation started from
    entry,        \* thread id -> "ui", "helper": who invoked, "none" before
    returned,     \* thread id -> what the caller of the invocation got
    session,      \* thread id -> st.session_state of the conversation's page
    budget,       \* thread id -> invocations left
    uuid_ctr,     \* tokens uuid4 has given
    ticket_seq,   \* next value of the store's ticket_seq
    ticket_log,   \* thread id -> the last execution of create_ticket by the
                  \* graph and by the page ("explicit") since the invocation
                  \* started, with the answer and ticket fields it was given
    alone,        \* thread id -> the conversation as it is when no other thread
                  \* id is ever used: position, channel values (the checkpoint),
                  \* pending writes, page state and the store's sequence, under
                  \* the same inputs, capability outcomes and uuid4 tokens
    probe         \* a function applied to an input, for the function checks

vars ==
    << checkpoint, pc, st, pend, ran, calls, base, entry, returned, session, budget,
       uuid_ctr, ticket_seq, ticket_log, alone, probe >>

ZeroRan == [n \in Nodes |-> 0]

ZeroCalls == [c \in Capabilities |-> 0]

NoResult == [kind |-> "none", state |-> EmptyDict]

EmptySession == [state |-> EmptyDict, ticket_saved |-> FALSE]

NoLog == [outcome |-> "none", before |-> EmptyDict]

NoTicketLog == [graph |-> NoLog, explicit |-> NoLog]

NoProbe == [fn |-> "none"]

InitAlone ==
    [pc |-> "idle", st |-> EmptyDict, pend |-> EmptyDict, session |-> EmptySession,
     ticket_seq |-> 1]

InitWorkflow ==
    /\ checkpoint = [t \in Threads |-> EmptyDict]
    /\ pc = [t \in Threads |-> "idle"]
    /\ st = [t \in Threads |-> EmptyDict]
    /\ pend = [t \in Threads |-> EmptyDict]
    /\ ran = [t \in Threads |-> ZeroRan]
    /\ calls = [t \in Threads |-> ZeroCalls]
    /\ base = [t \in Threads |-> EmptyDict]
    /\ entry = [t \in Threads |-> "none"]
    /\ returned = [t \in Threads |-> NoResult]
    /\ session = [t \in Threads |-> EmptySession]
    /\ uuid_ctr = 0
    /\ ticket_seq = 1
    /\ ticket_log = [t \in Threads |-> NoTicketLog]
    /\ alone = [t \in Threads |-> InitAlone]

Init ==
    /\ InitWorkflow
    /\ budget = [t \in Threads |-> IF t = "t1" THEN MaxInvocations ELSE 0]
    /\ probe = NoProbe

(* ---------------------------------------------------------------------- *)
(* The engine                                                              *)
(* ---------------------------------------------------------------------- *)
InternalErrorAnswer == "Internal error: failed to run assistant."

Bump(f, keys) == [k \in DOMAIN f |-> IF k \in keys THEN f[k] + 1 ELSE f[k]]

\* a fold that gives up when one of the tasks wrote nothing
ApplyWrites_AllOrNothing(s, writes) ==
    IF \E u \in DOMAIN writes : writes[u] = EmptyDict THEN s
    ELSE [k \in (DOMAIN s) \cup UNION { DOMAIN writes[u] : u \in DOMAIN writes } |->
            IF \E u \in DOMAIN writes : k \in DOMAIN writes[u]
            THEN writes[CHOOSE u \in DOMAIN writes : k \in DOMAIN writes[u]][k]
            ELSE s[k]]

\* the fold of the writes of one superstep into the channel values
ApplyWrites(s, writes) ==
    LET written == UNION { DOMAIN writes[u] : u \in DOMAIN writes }
    IN  [k \in (DOMAIN s) \cup written |->
           IF k \in written
           THEN writes[CHOOSE u \in DOMAIN writes : k \in DOMAIN writes[u]][k]
           ELSE s[k]]

\* a race instead of a join: the gate is planned as soon as the topic node
\* has finished
BarrierReached_TopicOnly(t) == "topic_classification" \in DOMAIN pend[t]

\* validate_topic is triggered by the three classification nodes, which all
\* run in the superstep START triggers: it is planned when that superstep
\* has ended, that is when every one of its tasks has finished
BarrierReached(t) == DOMAIN pend[t] = Units

\* what the caller gets when an exception leaves workflow.invoke:
\* _run_workflow catches it, run_workflow_for_message does not
Escaped(who) ==
    IF who = "ui" THEN [kind |-> "state", state |-> Upd1("answer", InternalErrorAnswer)]
    ELSE [kind |-> "raised", state |-> EmptyDict]

\* the Submit handler stores what _run_workflow returned
Stored(who, sess, result) ==
    IF who = "ui" THEN [state |-> result.state, ticket_saved |-> FALSE] ELSE sess

\* a checkpointer that keeps one checkpoint for all thread ids
StartInvoke_SharedCheckpoint(t, who, message) ==
    /\ pc[t] = "idle"
    /\ budget[t] > 0
    /\ budget' = [budget EXCEPT ![t] = @ - 1]
    /\ base' = [base EXCEPT ![t] = checkpoint["t1"]]
    /\ st' = [st EXCEPT ![t] = Merge(checkpoint["t1"], Upd1("message", message))]
    /\ checkpoint' = [checkpoint EXCEPT ![t] = Merge(checkpoint["t1"], Upd1("message", message))]
    /\ pc' = [pc EXCEPT ![t] = "classify"]
    /\ pend' = [pend EXCEPT ![t] = EmptyDict]
    /\ ran' = [ran EXCEPT ![t] = ZeroRan]
    /\ calls' = [calls EXCEPT ![t] = ZeroCalls]
    /\ entry' = [entry EXCEPT ![t] = who]
    /\ returned' = [returned EXCEPT ![t] = NoResult]
    /\ ticket_log' = [ticket_log EXCEPT ![t] = NoTicketLog]
    /\ alone' = [alone EXCEPT ![t].st = Merge(@, Upd1("message", message)),
                              ![t].pc = "classify",
                              ![t].pend = EmptyDict]
    /\ UNCHANGED << session, uuid_ctr, ticket_seq, probe >>

\* workflow.invoke(inputs, config) on thread t: the input is written over the
\* channel values of the thread's checkpoint and the START superstep is planned
StartInvoke(t, who, message) ==
    /\ pc[t] = "idle"
    /\ budget[t] > 0
    /\ budget' = [budget EXCEPT ![t] = @ - 1]
    /\ base' = [base EXCEPT ![t] = checkpoint[t]]
    /\ st' = [st EXCEPT ![t] = Merge(checkpoint[t], Upd1("message", message))]
    /\ checkpoint' = [checkpoint EXCEPT ![t] = Merge(checkpoint[t], Upd1("message", message))]
    /\ pc' = [pc EXCEPT ![t] = "classify"]
    /\ pend' = [pend EXCEPT ![t] = EmptyDict]
    /\ ran' = [ran EXCEPT ![t] = ZeroRan]
    /\ calls' = [calls EXCEPT ![t] = ZeroCalls]
    /\ entry' = [entry EXCEPT ![t] = who]
    /\ returned' = [returned EXCEPT ![t] = NoResult]
    /\ ticket_log' = [ticket_log EXCEPT ![t] = NoTicketLog]
    /\ alone' = [alone EXCEPT ![t].st = Merge(@, Upd1("message", message)),
                              ![t].pc = "classify",
                              ![t].pend = EmptyDict]
    /\ UNCHANGED << session, uuid_ctr, ticket_seq, probe >>

\* the Submit button of the page: empty input only shows a warning
Submit(t) ==
    \E message \in Messages(budget[t]) :
        /\ message # ""
        /\ StartInvoke(t, "ui", message)

\* run_workflow_for_message(message, config) with a thread id in config
RunHelper(t) ==
    \E message \in Messages(budget[t]) : StartInvoke(t, "helper", message)

\* run_workflow_for_message(message) without config: the graph was compiled
\* with a checkpointer, and invoke raises ValueError for the missing thread_id
RunHelperNoConfig(t) ==
    /\ pc[t] = "idle"
    /\ budget[t] > 0
    /\ budget' = [budget EXCEPT ![t] = @ - 1]
    /\ entry' = [entry EXCEPT ![t] = "helper"]
    /\ ran' = [ran EXCEPT ![t] = ZeroRan]
    /\ calls' = [calls EXCEPT ![t] = ZeroCalls]
    /\ returned' = [returned EXCEPT ![t] = Escaped("helper")]
    /\ ticket_log' = [ticket_log EXCEPT ![t] = NoTicketLog]
    /\ UNCHANGED << checkpoint, pc, st, pend, base, session, uuid_ctr, ticket_seq,
                    alone, probe >>

\* one classification node runs to completion; its write waits for the end
\* of the superstep
Classify(t, u) ==
    /\ pc[t] = "classify"
    /\ u \notin DOMAIN pend[t]
    /\ \E outcome \in UnitOutcomes(u) :
         LET r == UnitNode(u, st[t], outcome)
             ra == UnitNode(u, alone[t].st, outcome)
         IN  /\ pend' = [pend EXCEPT ![t] =
                           [v \in (DOMAIN pend[t]) \cup {u} |->
                              IF v = u THEN r.upd ELSE pend[t][v]]]
             /\ calls' = [calls EXCEPT ![t] = Bump(@, r.called)]
             /\ alone' = [alone EXCEPT ![t].pend =
                            [v \in (DOMAIN alone[t].pend) \cup {u} |->
                               IF v = u THEN ra.upd ELSE alone[t].pend[v]]]
    /\ ran' = [ran EXCEPT ![t] = Bump(@, {u})]
    /\ UNCHANGED << checkpoint, pc, st, base, entry, returned, session, budget,
                    uuid_ctr, ticket_seq, ticket_log, probe >>

\* end of the classification superstep: the writes are applied, the
\* checkpoint is saved and validate_topic is planned
EndSuperstep(t) ==
    /\ pc[t] = "classify"
    /\ BarrierReached(t)
    /\ st' = [st EXCEPT ![t] = ApplyWrites(st[t], pend[t])]
    /\ checkpoint' = [checkpoint EXCEPT ![t] = ApplyWrites(st[t], pend[t])]
    /\ pc' = [pc EXCEPT ![t] = "validate_topic"]
    /\ alone' = [alone EXCEPT ![t].st = ApplyWrites(@, alone[t].pend),
                              ![t].pc = "validate_topic"]
    /\ UNCHANGED << pend, ran, calls, base, entry, returned, session, budget,
                    uuid_ctr, ticket_seq, ticket_log, probe >>

\* an exception left a node: the invocation ends, the checkpoint keeps the
\* channel values of the last superstep that ended
Abort(t) ==
    /\ pc' = [pc EXCEPT ![t] = "idle"]
    /\ returned' = [returned EXCEPT ![t] = Escaped(entry[t])]
    /\ session' = [session EXCEPT ![t] = Stored(entry[t], @, Escaped(entry[t]))]
    /\ UNCHANGED << checkpoint, st >>

\* generate_answer wired to create_ticket instead of END
Successor_AnswerThenTicket(node) ==
    CASE node = "retrieve_docs" -> "generate_answer"
      [] node = "generate_answer" -> "create_ticket"
      [] node = "create_ticket" -> "END"

\* generate_answer wired back to retrieve_docs
Successor_AnswerThenRetrieve(node) ==
    CASE node = "retrieve_docs" -> "generate_answer"
      [] node = "generate_answer" -> "retrieve_docs"
      [] node = "create_ticket" -> "END"

\* graph.add_edge: the node that follows a node with one outgoing edge
Successor(node) ==
    CASE node = "retrieve_docs" -> "generate_answer"
      [] node = "generate_answer" -> "END"
      [] node = "create_ticket" -> "END"

\* an engine that saves no checkpoint after a node
Advance_NoCheckpoint(t, next, successor) ==
    /\ st' = [st EXCEPT ![t] = next]
    /\ UNCHANGED checkpoint
    /\ IF successor = "END"
       THEN /\ pc' = [pc EXCEPT ![t] = "idle"]
            /\ returned' = [returned EXCEPT ![t] = [kind |-> "state", state |-> next]]
            /\ session' = [session EXCEPT ![t] =
                             Stored(entry[t], @, [kind |-> "state", state |-> next])]
       ELSE /\ pc' = [pc EXCEPT ![t] = successor]
            /\ UNCHANGED << returned, session >>

\* a node has run: its write is applied and the checkpoint is saved; then
\* the next node is planned or, at END, invoke returns the channel values
Advance(t, next, successor) ==
    /\ st' = [st EXCEPT ![t] = next]
    /\ checkpoint' = [checkpoint EXCEPT ![t] = next]
    /\ IF successor = "END"
       THEN /\ pc' = [pc EXCEPT ![t] = "idle"]
            /\ returned' = [returned EXCEPT ![t] = [kind |-> "state", state |-> next]]
            /\ session' = [session EXCEPT ![t] =
                             Stored(entry[t], @, [kind |-> "state", state |-> next])]
       ELSE /\ pc' = [pc EXCEPT ![t] = successor]
            /\ UNCHANGED << returned, session >>

\* Abort and Advance in the conversation of thread t alone; seq is the next
\* value of the store's sequence there
AloneAbort(t) ==
    [alone EXCEPT ![t].pc = "idle",
                  ![t].session = Stored(entry[t], @, Escaped(entry[t]))]

AloneAdvance(t, next, successor, seq) ==
    [alone EXCEPT ![t].st = next,
                  ![t].pc = IF successor = "END" THEN "idle" ELSE successor,
                  ![t].session = IF successor = "END"
                                 THEN Stored(entry[t], @, [kind |-> "state", state |-> next])
                                 ELSE @,
                  ![t].ticket_seq = seq]

\* a gate planned once for each of the three edges that lead to it: it
\* routes when it has run for the third time
Gate_OncePerUnit(t) ==
    /\ pc[t] = "validate_topic"
    /\ ran' = [ran EXCEPT ![t] = Bump(@, {"validate_topic"})]
    /\ LET r == validate_topic(st[t])
           next == Merge(st[t], r.upd)
       IN  IF r.raised
           THEN Abort(t)
           ELSE IF ran[t]["validate_topic"] < 2
           THEN /\ st' = [st EXCEPT ![t] = next]
                /\ checkpoint' = [checkpoint EXCEPT ![t] = next]
                /\ UNCHANGED << pc, returned, session >>
           ELSE Advance(t, next, path_map(routing_function(next)))
    /\ LET ra == validate_topic(alone[t].st)
           nexta == Merge(alone[t].st, ra.upd)
       IN  alone' = IF ra.raised THEN AloneAbort(t)
                    ELSE IF ran[t]["validate_topic"] < 2
                    THEN [alone EXCEPT ![t].st = nexta]
                    ELSE AloneAdvance(t, nexta, path_map(routing_function(nexta)),
                                      alone[t].ticket_seq)
    /\ UNCHANGED << pend, calls, base, entry, budget, uuid_ctr, ticket_seq,
                    ticket_log, probe >>

\* the gate and the conditional edge that leaves it
Gate(t) ==
    /\ pc[t] = "validate_topic"
    /\ ran' = [ran EXCEPT ![t] = Bump(@, {"validate_topic"})]
    /\ LET r == validate_topic(st[t])
           next == Merge(st[t], r.upd)
       IN  IF r.raised
           THEN Abort(t)
           ELSE Advance(t, next, path_map(routing_function(next)))
    /\ LET ra == validate_topic(alone[t].st)
           nexta == Merge(alone[t].st, ra.upd)
       IN  alone' = IF ra.raised THEN AloneAbort(t)
                    ELSE AloneAdvance(t, nexta, path_map(routing_function(nexta)),
                                      alone[t].ticket_seq)
    /\ UNCHANGED << pend, calls, base, entry, budget, uuid_ctr, ticket_seq,
                    ticket_log, probe >>

Retrieve(t) ==
    /\ pc[t] = "retrieve_docs"
    /\ ran' = [ran EXCEPT ![t] = Bump(@, {"retrieve_docs"})]
    /\ \E retr \in RetrOutcomes :
         LET r == retrieve_docs(st[t], retr)
             ra == retrieve_docs(alone[t].st, retr)
         IN  /\ Advance(t, Merge(st[t], r.upd), Successor("retrieve_docs"))
             /\ calls' = [calls EXCEPT ![t] = Bump(@, r.called)]
             /\ alone' = AloneAdvance(t, Merge(alone[t].st, ra.upd),
                                      Successor("retrieve_docs"), alone[t].ticket_seq)
    /\ UNCHANGED << pend, base, entry, budget, uuid_ctr, ticket_seq, ticket_log, probe >>

Answer(t) ==
    /\ pc[t] = "generate_answer"
    /\ ran' = [ran EXCEPT ![t] = Bump(@, {"generate_answer"})]
    /\ \E retr \in RetrOutcomes, gen \in GenOutcomes, judge \in JudgeOutcomes :
         LET r == generate_answer(st[t], retr, gen, judge)
             ra == generate_answer(alone[t].st, retr, gen, judge)
         IN  /\ Advance(t, Merge(st[t], r.upd), Successor("generate_answer"))
             /\ calls' = [calls EXCEPT ![t] = Bump(@, r.called)]
             /\ alone' = AloneAdvance(t, Merge(alone[t].st, ra.upd),
                                      Successor("generate_answer"), alone[t].ticket_seq)
    /\ UNCHANGED << pend, base, entry, budget, uuid_ctr, ticket_seq, ticket_log, probe >>

Ticket(t) ==
    /\ pc[t] = "create_ticket"
    /\ ran' = [ran EXCEPT ![t] = Bump(@, {"create_ticket"})]
    /\ uuid_ctr' = uuid_ctr + 1
    /\ \E subj \in SubjOutcomes, ins \in InsOutcomes :
         LET c == create_ticket(st[t], uuid_ctr + 1, subj, ins, ticket_seq)
             r == create_ticket_node(st[t], uuid_ctr + 1, subj, ins, ticket_seq)
             ca == create_ticket(alone[t].st, uuid_ctr + 1, subj, ins, alone[t].ticket_seq)
             ra == create_ticket_node(alone[t].st, uuid_ctr + 1, subj, ins,
                                      alone[t].ticket_seq)
         IN  /\ Advance(t, Merge(st[t], r.upd), Successor("create_ticket"))
             /\ calls' = [calls EXCEPT ![t] = Bump(@, r.called)]
             /\ ticket_seq' = IF c.inserted THEN ticket_seq + 1 ELSE ticket_seq
             /\ ticket_log' = [ticket_log EXCEPT ![t].graph = TicketLog(c, st[t])]
             /\ alone' = AloneAdvance(t, Merge(alone[t].st, ra.upd),
                                      Successor("create_ticket"),
                                      IF ca.inserted THEN alone[t].ticket_seq + 1
                                      ELSE alone[t].ticket_seq)
    /\ UNCHANGED << pend, base, entry, budget, probe >>

(* ---------------------------------------------------------------------- *)
(* The page of the support agent (apps/streamlit_agent.py)                 *)
(* ---------------------------------------------------------------------- *)
\* a button that stays under the answer after a ticket was saved
RaiseTicketOffered_IgnoresSaved(t) ==
    /\ Get(session[t].state, "answer", "") # ""
    /\ Get(session[t].state, "needs_ticket_offer", FALSE) = TRUE

\* the Raise Ticket button: shown under an answer that offers escalation,
\* while no ticket was saved for it
RaiseTicketOffered(t) ==
    /\ Get(session[t].state, "answer", "") # ""
    /\ Get(session[t].state, "needs_ticket_offer", FALSE) = TRUE
    /\ ~session[t].ticket_saved

RaiseTicket(t) ==
    /\ pc[t] = "idle"
    /\ RaiseTicketOffered(t)
    /\ uuid_ctr < MaxTokens
    /\ uuid_ctr' = uuid_ctr + 1
    /\ \E subj \in SubjOutcomes, ins \in InsOutcomes :
         LET c == create_ticket(session[t].state, uuid_ctr + 1, subj, ins, ticket_seq)
             ca == create_ticket(alone[t].session.state, uuid_ctr + 1, subj, ins,
                                 alone[t].ticket_seq)
         IN  /\ session' = [session EXCEPT ![t] =
                              IF c.raised THEN @
                              ELSE [state |-> c.state, ticket_saved |-> TRUE]]
             /\ alone' = [alone EXCEPT
                            ![t].session = IF ca.raised THEN @
                                           ELSE [state |-> ca.state, ticket_saved |-> TRUE],
                            ![t].ticket_seq = IF ca.inserted THEN @ + 1 ELSE @]
             /\ ticket_seq' = IF c.inserted THEN ticket_seq + 1 ELSE ticket_seq
             /\ ticket_log' = [ticket_log EXCEPT ![t].explicit =
                                 TicketLog(c, session[t].state)]
    /\ UNCHANGED << checkpoint, pc, st, pend, ran, calls, base, entry, returned,
                    budget, probe >>

\* the Clear button
Clear(t) ==
    /\ pc[t] = "idle"
    /\ session' = [session EXCEPT ![t] = EmptySession]
    /\ alone' = [alone EXCEPT ![t].session = EmptySession]
    /\ ticket_log' = [ticket_log EXCEPT ![t].explicit = NoLog]
    /\ UNCHANGED << checkpoint, pc, st, pend, ran, calls, base, entry, returned,
                    budget, uuid_ctr, ticket_seq, probe >>

Next ==
    \E t \in Threads :
        \/ Submit(t)
        \/ RunHelper(t)
        \/ RunHelperNoConfig(t)
        \/ \E u \in Units : Classify(t, u)
        \/ EndSuperstep(t)
        \/ Gate(t)
        \/ Retrieve(t)
        \/ Answer(t)
        \/ Ticket(t)
        \/ RaiseTicket(t)
        \/ Clear(t)

Spec == Init /\ [][Next]_vars

\* two conversations, each with its own thread id, whose invocations and
\* clicks interleave
InitThreads ==
    /\ InitWorkflow
    /\ budget = [t \in Threads |-> MaxInvocationsEach]
    /\ probe = NoProbe

SpecThreads == InitThreads /\ [][Next]_vars

\* a step of the engine in the invocation of thread t
Step(t) ==
    \/ \E u \in Units : Classify(t, u)
    \/ EndSuperstep(t)
    \/ Gate(t)
    \/ Retrieve(t)
    \/ Answer(t)
    \/ Ticket(t)

\* the node the invocation of thread t is at calls a capability
CallsCapability(t) ==
    \/ pc[t] = "classify" /\ DOMAIN pend[t] # Units /\ Get(st[t], "message", "") # ""
    \/ pc[t] \in {"retrieve_docs", "generate_answer"} /\ Get(st[t], "message", "") # ""
    \/ pc[t] = "create_ticket"

\* a capability call of the node the invocation is at does not return:
\* invoke, get_relevant_documents and execute are called without a timeout,
\* so the node waits, and the invocation with it
Hang(t) ==
    /\ CallsCapability(t)
    /\ pc' = [pc EXCEPT ![t] = "blocked"]
    /\ alone' = [alone EXCEPT ![t].pc = "blocked"]
    /\ UNCHANGED << checkpoint, st, pend, ran, calls, base, entry, returned, session,
                    budget, uuid_ctr, ticket_seq, ticket_log, probe >>

NextHang == Next \/ \E t \in Threads : Hang(t)

\* the workflow with capabilities that may not return
SpecHang == Init /\ [][NextHang]_vars

\* the workflow with capabilities that return or raise: the engine runs
\* every node it has planned, so a step that stays enabled is taken
InitLive ==
    /\ InitWorkflow
    /\ budget = [t \in Threads |-> IF t = "t1" THEN MaxInvocationsEach ELSE 0]
    /\ probe = NoProbe

SpecLive == InitLive /\ [][Next]_vars /\ \A t \in Threads : WF_vars(Step(t))

(* ---------------------------------------------------------------------- *)
(* Properties of the workflow                                              *)
(* ---------------------------------------------------------------------- *)
\* the invocation of thread t has passed the classification superstep
PastBarrier(t) == pc[t] = "validate_topic" \/ ran[t]["validate_topic"] > 0

\* the invocation of thread t ran through the graph and has returned
Returned(t) ==
    /\ pc[t] = "idle"
    /\ ran[t]["validate_topic"] = 1
    /\ returned[t].kind = "state"

GateVerdict(t, b) ==
    /\ ran[t]["validate_topic"] = 1
    /\ Has(st[t], "is_topic_valid")
    /\ st[t]["is_topic_valid"] = b

\* C1: the gate is planned and runs only when each of the three
\* classification units has run to completion (each exactly once) and its
\* update, empty or not, is among the writes of the superstep.
C1_BarrierHonoured ==
    \A t \in Threads :
        PastBarrier(t) =>
            /\ DOMAIN pend[t] = Units
            /\ \A u \in Units : ran[t][u] = 1

\* the gate has run after one unit failed and another answered
C1_Witness ==
    \E t \in Threads :
        /\ ran[t]["validate_topic"] = 1
        /\ DOMAIN pend[t] = Units
        /\ pend[t]["sentiment_analysis"] = EmptyDict
        /\ pend[t]["topic_classification"] # EmptyDict

\* C2 as stated: after a valid verdict the path is retrieve_docs then
\* generate_answer, the ticketing stage and the store insert are not
\* executed, and the state returned holds no ticket field.
C2_NoTicketFieldsAfterValid ==
    \A t \in Threads :
        GateVerdict(t, TRUE) =>
            /\ ran[t]["create_ticket"] = 0
            /\ calls[t]["insert_ticket"] = 0
            /\ Returned(t) =>
                 /\ ran[t]["retrieve_docs"] = 1
                 /\ ran[t]["generate_answer"] = 1
                 /\ DOMAIN returned[t].state \cap TicketFields = {}

\* C2 amended: after a valid verdict the path is retrieve_docs then
\* generate_answer, the ticketing stage and the store insert are not
\* executed, and the ticket fields of the state returned are exactly those
\* the checkpoint of the thread held when the invocation started (none on a
\* thread without a checkpoint).
C2_ValidPathWritesNoTicketField ==
    \A t \in Threads :
        GateVerdict(t, TRUE) =>
            /\ ran[t]["create_ticket"] = 0
            /\ calls[t]["insert_ticket"] = 0
            /\ Restrict(st[t], TicketFields) = Restrict(base[t], TicketFields)
            /\ Returned(t) =>
                 /\ ran[t]["retrieve_docs"] = 1
                 /\ ran[t]["generate_answer"] = 1
                 /\ Restrict(returned[t].state, TicketFields)
                      = Restrict(base[t], TicketFields)

\* an answer run that offers escalation has returned
C2_Witness ==
    \E t \in Threads :
        /\ GateVerdict(t, TRUE)
        /\ Returned(t)
        /\ Get(returned[t].state, "needs_ticket_offer", FALSE) = TRUE
        /\ DOMAIN returned[t].state \cap TicketFields = {}

\* the invocation of thread t created a ticket
TicketCreated(t) == ticket_log[t].graph.outcome = "created"

\* C3 as stated: after an invalid verdict the path is create_ticket alone
\* and the state returned holds neither docs nor answer.
C3_NoAnswerAfterInvalid ==
    \A t \in Threads :
        GateVerdict(t, FALSE) =>
            /\ ran[t]["retrieve_docs"] = 0
            /\ ran[t]["generate_answer"] = 0
            /\ Returned(t) =>
                 /\ ran[t]["create_ticket"] = 1
                 /\ ~Has(returned[t].state, "docs")
                 /\ ~Has(returned[t].state, "answer")

\* C3 amended: after an invalid verdict the path is create_ticket alone
\* (retrieve_docs and generate_answer are not executed); docs in the state
\* returned is what the checkpoint of the thread held when the invocation
\* started, and so is answer when the ticket was created (both absent on a
\* thread without a checkpoint); when the store insert failed or the stage
\* raised, answer is that failure's message.
C3_InvalidPathWritesNoAnswer ==
    \A t \in Threads :
        GateVerdict(t, FALSE) =>
            /\ ran[t]["retrieve_docs"] = 0
            /\ ran[t]["generate_answer"] = 0
            /\ calls[t]["retriever"] = 0
            /\ Returned(t) =>
                 /\ ran[t]["create_ticket"] = 1
                 /\ Restrict(returned[t].state, {"docs"}) = Restrict(base[t], {"docs"})
                 /\ IF TicketCreated(t)
                    THEN Restrict(returned[t].state, {"answer"})
                           = Restrict(base[t], {"answer"})
                    ELSE /\ Has(returned[t].state, "answer")
                         /\ returned[t].state["answer"]
                              = (IF ticket_log[t].graph.outcome = "store_failed"
                                 THEN StoreFailedAnswer ELSE NodeFailedAnswer)

\* a ticket run on a thread without a checkpoint has returned its ticket
C3_Witness ==
    \E t \in Threads :
        /\ GateVerdict(t, FALSE)
        /\ Returned(t)
        /\ TicketCreated(t)
        /\ base[t] = EmptyDict
        /\ Has(returned[t].state, "ticket_message")
        /\ ~Has(returned[t].state, "answer")
        /\ ~Has(returned[t].state, "docs")

\* C5: once the gate has run, exactly one of the two terminal stages
\* executes: never both in one invocation, and an invocation that has
\* returned ran the answer stage (retrieve_docs and generate_answer, once
\* each) or the ticketing stage (once), not neither.
C5_ExactlyOneTerminalStage ==
    \A t \in Threads :
        LET answer_stage == ran[t]["retrieve_docs"] + ran[t]["generate_answer"]
            ticket_stage == ran[t]["create_ticket"]
        IN  /\ ~(answer_stage > 0 /\ ticket_stage > 0)
            /\ answer_stage + ticket_stage > 0 => ran[t]["validate_topic"] = 1
            /\ Returned(t) =>
                 \/ /\ ran[t]["retrieve_docs"] = 1
                    /\ ran[t]["generate_answer"] = 1
                    /\ ticket_stage = 0
                 \/ /\ ticket_stage = 1
                    /\ answer_stage = 0

\* the second invocation of a conversation took the other path than the
\* first: its checkpoint held a ticket and it has returned an answer
C5_Witness ==
    \E t \in Threads :
        /\ Returned(t)
        /\ Has(base[t], "ticket_id")
        /\ ran[t]["generate_answer"] = 1
        /\ ran[t]["create_ticket"] = 0

\* C6: whatever fails, the caller of the invoke operation gets a state and
\* no exception.
C6_InvokeNeverRaises ==
    \A t \in Threads : returned[t].kind # "raised"

\* where the last execution of create_ticket, by `via`, left its result
TicketResult(t, via) == IF via = "graph" THEN returned[t].state ELSE session[t].state

\* C7: when the store insert returned no display id, in the graph or in an
\* explicit call on the state of an earlier answer run, the result has the
\* store-failure answer and its ticket fields are those of the state the
\* stage was given: the execution set none.
C7_StoreFailureSetsNoTicketField ==
    \A t \in Threads : \A via \in {"graph", "explicit"} :
        ticket_log[t][via].outcome = "store_failed" =>
            /\ Has(TicketResult(t, via), "answer")
            /\ TicketResult(t, via)["answer"] = StoreFailedAnswer
            /\ Restrict(TicketResult(t, via), TicketFields)
                 = Restrict(ticket_log[t][via].before, TicketFields)

\* an explicit call on the state of an answer run met a store failure
C7_Witness ==
    \E t \in Threads :
        /\ ticket_log[t].explicit.outcome = "store_failed"
        /\ Has(ticket_log[t].explicit.before, "answer")
        /\ ticket_log[t].explicit.before["answer"] = "A"
        /\ session[t].state["answer"] = StoreFailedAnswer
        /\ ~Has(session[t].state, "ticket_id")

\* the unit u of the invocation of thread t returned the empty update
UnitFailed(t, u) == PastBarrier(t) /\ u \in DOMAIN pend[t] /\ pend[t][u] = EmptyDict

\* C9: when a classification unit returned no update, its field is absent
\* in the state the gate reads, in the state the terminal stage reads and in
\* the state returned, also on a thread that has a checkpoint.
C9_FailedUnitLeavesFieldAbsent ==
    \A t \in Threads : \A u \in Units :
        UnitFailed(t, u) =>
            /\ ~Has(st[t], UnitField(u))
            /\ Returned(t) => ~Has(returned[t].state, UnitField(u))

\* C10: a unit that fails neither stops its siblings nor loses their
\* writes: a unit still pending can run, the superstep can end when all have
\* run, the label of every unit that answered is in the state the gate and
\* the terminal stage read, and the gate and the terminal stage can run.
C10_FailureSparesSiblings ==
    \A t \in Threads :
        /\ pc[t] = "classify" =>
             /\ \A u \in Units \ DOMAIN pend[t] : ENABLED Classify(t, u)
             /\ DOMAIN pend[t] = Units => ENABLED EndSuperstep(t)
        /\ PastBarrier(t) =>
             \A u \in Units :
                 pend[t][u] # EmptyDict =>
                     /\ DOMAIN pend[t][u] = { UnitField(u) }
                     /\ Has(st[t], UnitField(u))
                     /\ st[t][UnitField(u)] = pend[t][u][UnitField(u)]
        /\ pc[t] = "validate_topic" => ENABLED Gate(t)
        /\ pc[t] = "retrieve_docs" => ENABLED Retrieve(t)
        /\ pc[t] = "generate_answer" => ENABLED Answer(t)
        /\ pc[t] = "create_ticket" => ENABLED Ticket(t)

\* on a thread without a checkpoint the topic unit failed, the other two
\* answered, and the invocation went through the gate to the ticket stage
C10_Witness ==
    \E t \in Threads :
        /\ base[t] = EmptyDict
        /\ UnitFailed(t, "topic_classification")
        /\ pend[t]["sentiment_analysis"] # EmptyDict
        /\ pend[t]["priority_classification"] # EmptyDict
        /\ Returned(t)
        /\ ran[t]["create_ticket"] = 1
        /\ Has(returned[t].state, "sentiment")
        /\ Has(returned[t].state, "priority")

\* `part` is one of the parts of a rendering
Embeds(rendering, part) == \E i \in 1..Len(rendering) : rendering[i] = part

\* C11: whenever the store insert returned a display id, in the graph or in
\* an explicit call, the result holds all seven ticket fields: ticket_id is
\* the token passed to the store, ticket_query the message, ticket_topic,
\* ticket_sentiment and ticket_priority the labels extracted from the state
\* (the defaults General, Neutral, P2 where a field holds no label),
\* ticket_subject the subject passed to the store, and ticket_message embeds
\* the display id returned, the topic, the query and the priority.
C11_CreatedTicketSetsSevenFields ==
    \A t \in Threads : \A via \in {"graph", "explicit"} :
        ticket_log[t][via].outcome = "created" =>
            LET res == TicketResult(t, via)
                log == ticket_log[t][via]
                label(key, default) ==
                    IF Has(res, key) /\ res[key].kind \in {"obj", "dict"}
                    THEN res[key].label ELSE default
            IN  /\ TicketFields \subseteq DOMAIN res
                /\ log.display_id # << >>
                /\ res["ticket_id"] = log.row.ticket_id
                /\ res["ticket_query"] = Get(res, "message", "No query provided.")
                /\ res["ticket_topic"] = label("topic", "General")
                /\ res["ticket_sentiment"] = label("sentiment", "Neutral")
                /\ res["ticket_priority"] = label("priority", "P2")
                /\ res["ticket_subject"] = log.row.subject
                /\ Embeds(res["ticket_message"], log.display_id)
                /\ Embeds(res["ticket_message"], << res["ticket_topic"] >>)
                /\ Embeds(res["ticket_message"], << res["ticket_query"] >>)
                /\ Embeds(res["ticket_message"], << res["ticket_priority"] >>)

\* the graph created a ticket from a state holding a topic and a priority
\* label and no sentiment
C11_Witness ==
    \E t \in Threads :
        /\ ticket_log[t].graph.outcome = "created"
        /\ Returned(t)
        /\ Has(returned[t].state, "topic")
        /\ returned[t].state["ticket_topic"] = returned[t].state["topic"].label
        /\ ~Has(returned[t].state, "sentiment")
        /\ returned[t].state["ticket_sentiment"] = "Neutral"
        /\ returned[t].state["ticket_priority"] = "P0"
        /\ returned[t].state["ticket_query"] = "m1"
        /\ Embeds(returned[t].state["ticket_message"], << "TICKET-", 1 >>)

\* generate_answer of the invocation of thread t reached the generation
\* capability (the chain's retrieval did not raise) and the generation raised:
\* the judge, which follows a generation that succeeded, was not called
GenFailed(t) ==
    /\ ran[t]["generate_answer"] = 1
    /\ calls[t]["llm"] = 1
    /\ calls[t]["escalation_llm"] = 0

\* C13 as stated: when the generation raised after the retrieve_docs node
\* retrieved documents, the invocation returns a state whose answer is the
\* generation-failure message and whose docs, needs_ticket_offer and
\* escalation_reason are as they were when the invocation started.
C13_GenerationFailureTouchesAnswerOnly ==
    \A t \in Threads :
        (GenFailed(t) /\ Get(st[t], "docs", << >>) # << >>) =>
            /\ Returned(t)
            /\ Get(returned[t].state, "answer", "") = GenerationFailedAnswer
            /\ Restrict(returned[t].state, {"docs", "needs_ticket_offer", "escalation_reason"})
                 = Restrict(base[t], {"docs", "needs_ticket_offer", "escalation_reason"})

\* C13 amended: when the generation raised, the invocation returns a state
\* (it ends normally) whose answer is the generation-failure message;
\* needs_ticket_offer and escalation_reason are as the checkpoint of the
\* thread held them when the invocation started (absent without one), and
\* docs holds what the retrieve_docs node wrote earlier in the invocation:
\* the documents it retrieved, or the empty list.
C13_GenerationFailureWritesAnswerOnly ==
    \A t \in Threads :
        GenFailed(t) =>
            /\ Returned(t)
            /\ Get(returned[t].state, "answer", "") = GenerationFailedAnswer
            /\ Restrict(returned[t].state, {"needs_ticket_offer", "escalation_reason"})
                 = Restrict(base[t], {"needs_ticket_offer", "escalation_reason"})
            /\ Has(returned[t].state, "docs")
            /\ returned[t].state["docs"] \in { o.docs : o \in RetrOutcomes }
            /\ calls[t]["retriever"] = 2

\* on a thread without a checkpoint retrieve_docs found two documents and
\* the generation raised
C13_Witness ==
    \E t \in Threads :
        /\ GenFailed(t)
        /\ base[t] = EmptyDict
        /\ returned[t].state["answer"] = GenerationFailedAnswer
        /\ returned[t].state["docs"] = << "d1", "d2" >>
        /\ ~Has(returned[t].state, "needs_ticket_offer")

\* C15: when the message is empty the answer stage calls neither the
\* retrieval capability, nor the generation capability, nor the judge, and
\* all it writes is answer = "No message provided.": retrieve_docs writes
\* nothing, and the state returned differs from the state the gate left in
\* the answer only.
C15_EmptyMessageShortCircuits ==
    \A t \in Threads :
        (ran[t]["retrieve_docs"] = 1 /\ Get(st[t], "message", "") = "") =>
            /\ calls[t]["retriever"] = 0
            /\ calls[t]["llm"] = 0
            /\ calls[t]["escalation_llm"] = 0
            /\ Without(st[t], {"answer", "message", "is_topic_valid"})
                 = Without(base[t], {"answer", "message", "is_topic_valid"})
            /\ IF ran[t]["generate_answer"] = 1
               THEN /\ Returned(t)
                    /\ Get(returned[t].state, "answer", "") = NoMessageAnswer
               ELSE Restrict(st[t], {"answer"}) = Restrict(base[t], {"answer"})

\* an invocation with the empty message went through the answer stage (the
\* topic of the checkpoint is a valid one) and replaced the earlier answer
C15_Witness ==
    \E t \in Threads :
        /\ Returned(t)
        /\ returned[t].state["message"] = ""
        /\ ran[t]["generate_answer"] = 1
        /\ Get(base[t], "answer", "") = "A"
        /\ returned[t].state["answer"] = NoMessageAnswer
        /\ calls[t] = ZeroCalls

\* the fields each stage owns
ClassificationFields == {"sentiment", "topic", "priority"}

AnswerFields == {"answer", "docs", "needs_ticket_offer", "escalation_reason"}

\* the fields of `old` that `new` lacks or holds with another value
Overwritten(old, new) == { k \in DOMAIN old : k \notin DOMAIN new \/ new[k] # old[k] }

\* the fields owned by the stage that runs when the invocation is at `at`
Owned(at) ==
    CASE at = "classify" -> ClassificationFields
      [] at = "validate_topic" -> {"is_topic_valid"}
      [] at \in {"retrieve_docs", "generate_answer"} -> AnswerFields
      [] at = "create_ticket" -> TicketFields
      [] OTHER -> {}

\* the page called create_ticket for thread t in this step
ExplicitCall(t) ==
    /\ ticket_log'[t].explicit # ticket_log[t].explicit
    /\ ticket_log'[t].explicit.outcome # "none"

\* C16 as stated: a step of a stage removes no field of the state and
\* changes the value of no field that another stage owns, and so does an
\* explicit create_ticket call on the state of the page.
C16_StagesKeepToOwnFields ==
    [][ \A t \in Threads :
          /\ pc[t] # "idle" =>
                /\ DOMAIN st[t] \subseteq DOMAIN st'[t]
                /\ Overwritten(st[t], st'[t]) \subseteq Owned(pc[t])
          /\ ExplicitCall(t) =>
                /\ DOMAIN session[t].state \subseteq DOMAIN session'[t].state
                /\ Overwritten(session[t].state, session'[t].state) \subseteq TicketFields
      ]_vars

\* the fields an execution of create_ticket may change: the ticket fields
\* when the ticket was created, answer when the store or the stage failed
TicketWrites(outcome) == IF outcome = "created" THEN TicketFields ELSE {"answer"}

\* C16 amended: a step of a stage removes no field of the state and changes
\* the value of no field that another stage owns, except that the ticketing
\* stage, when the store insert returns no display id or the stage fails,
\* sets answer to its failure message over an answer the state already
\* holds (and then changes no ticket field); the same holds for an explicit
\* create_ticket call on the state of the page.
C16_StagesKeepToOwnFieldsButFailedTicket ==
    [][ \A t \in Threads :
          /\ pc[t] # "idle" =>
                /\ DOMAIN st[t] \subseteq DOMAIN st'[t]
                /\ Overwritten(st[t], st'[t]) \subseteq
                      (IF pc[t] = "create_ticket"
                       THEN TicketWrites(ticket_log'[t].graph.outcome)
                       ELSE Owned(pc[t]))
          /\ ExplicitCall(t) =>
                /\ DOMAIN session[t].state \subseteq DOMAIN session'[t].state
                /\ Overwritten(session[t].state, session'[t].state) \subseteq
                      TicketWrites(ticket_log'[t].explicit.outcome)
      ]_vars

\* the ticketing stage of the graph met a store failure on a thread whose
\* checkpoint held the answer of an earlier run, and replaced that answer
C16_Witness ==
    \E t \in Threads :
        /\ ticket_log[t].graph.outcome = "store_failed"
        /\ Returned(t)
        /\ Get(base[t], "answer", "") = "A"
        /\ returned[t].state["answer"] = StoreFailedAnswer
        /\ Has(returned[t].state, "docs")

\* the state holds an answer and no ticket field, or ticket fields and no
\* answer
AnswerXorTicket(state) ==
    \/ Has(state, "answer") /\ DOMAIN state \cap TicketFields = {}
    \/ ~Has(state, "answer") /\ DOMAIN state \cap TicketFields # {}

\* C18 as stated: the state a run returns holds an answer and no ticket
\* field, or ticket fields and no answer, whatever the checkpoint of the
\* thread held.
C18_FinalStateAnswerXorTicket ==
    \A t \in Threads : Returned(t) => AnswerXorTicket(returned[t].state)

\* C18 amended: a run writes answer or ticket fields, never both: of the
\* two, one is in the state returned as the checkpoint of the thread held it
\* when the run started.  On a thread whose checkpoint held neither, the
\* state returned holds an answer and no ticket field, or ticket fields and
\* no answer.
C18_RunWritesAnswerXorTicket ==
    \A t \in Threads :
        Returned(t) =>
            /\ \/ Restrict(returned[t].state, TicketFields) = Restrict(base[t], TicketFields)
               \/ Restrict(returned[t].state, {"answer"}) = Restrict(base[t], {"answer"})
            /\ DOMAIN base[t] \cap (TicketFields \cup {"answer"}) = {} =>
                  AnswerXorTicket(returned[t].state)

\* a run that created a ticket on a thread whose checkpoint held the answer
\* of an earlier run: the state returned holds both
C18_Witness ==
    \E t \in Threads :
        /\ Returned(t)
        /\ TicketCreated(t)
        /\ Get(base[t], "answer", "") = "A"
        /\ ~Has(base[t], "ticket_id")
        /\ Get(returned[t].state, "answer", "") = "A"
        /\ TicketFields \subseteq DOMAIN returned[t].state

\* the fields the stages of the invocation of thread t have written, and
\* the input field
Written(t) ==
    {"message"}
      \cup UNION { DOMAIN pend[t][u] : u \in DOMAIN pend[t] }
      \cup (IF ran[t]["validate_topic"] = 1 THEN {"is_topic_valid"} ELSE {})
      \cup (IF ran[t]["retrieve_docs"] = 1 /\ st[t]["message"] # "" THEN {"docs"} ELSE {})
      \cup (IF ran[t]["generate_answer"] = 1
            THEN (IF calls[t]["escalation_llm"] = 1 THEN AnswerFields ELSE {"answer"})
            ELSE {})
      \cup (IF ran[t]["create_ticket"] = 1
            THEN TicketWrites(ticket_log[t].graph.outcome) ELSE {})

\* C19: when an invocation has returned, the checkpoint of its thread is
\* the state it returned; an invocation starts from the checkpoint of its
\* thread with the new message written over it; and in the state a later
\* invocation returns, every field of the checkpoint it started from that
\* its stages did not write is present with the same value.
C19_LaterInvocationContinuesCheckpoint ==
    /\ [] \A t \in Threads :
             Returned(t) =>
                 /\ checkpoint[t] = returned[t].state
                 /\ \A k \in DOMAIN base[t] \ Written(t) :
                       /\ Has(returned[t].state, k)
                       /\ returned[t].state[k] = base[t][k]
    /\ [][ \A t \in Threads :
              (pc[t] = "idle" /\ pc'[t] = "classify") =>
                  /\ base'[t] = checkpoint[t]
                  /\ Returned(t) => base'[t] = returned[t].state
                  /\ st'[t] = Merge(checkpoint[t], Upd1("message", st'[t]["message"]))
       ]_vars

\* the second invocation of a conversation returned an answer; its
\* sentiment unit failed, and the state returned holds the sentiment and the
\* ticket of the first
C19_Witness ==
    \E t \in Threads :
        /\ Returned(t)
        /\ ran[t]["generate_answer"] = 1
        /\ UnitFailed(t, "sentiment_analysis")
        /\ Has(base[t], "sentiment")
        /\ Has(base[t], "ticket_id")
        /\ base[t]["message"] = "m1"
        /\ returned[t].state["message"] = "m2"
        /\ returned[t].state["sentiment"] = base[t]["sentiment"]
        /\ returned[t].state["ticket_id"] = base[t]["ticket_id"]
        /\ checkpoint[t] = returned[t].state

\* the display id in a rendering of ticket_message
IsDisplayId(part) == Len(part) = 2 /\ part[1] = "TICKET-"

\* a state without the display id its ticket_message embeds
NoDisplayId(state) ==
    [k \in DOMAIN state |->
       IF k = "ticket_message"
       THEN [i \in DOMAIN state[k] |->
               IF IsDisplayId(state[k][i]) THEN << "TICKET-" >> ELSE state[k][i]]
       ELSE state[k]]

\* C20 as stated: whatever the other thread does, the position, the channel
\* values, the checkpoint, the pending writes, the page state and the state
\* returned of a thread are those of the same conversation run alone.
C20_ThreadsIndependent ==
    \A t \in Threads :
        /\ pc[t] = alone[t].pc
        /\ pend[t] = alone[t].pend
        /\ st[t] = alone[t].st
        /\ checkpoint[t] = alone[t].st
        /\ session[t] = alone[t].session
        /\ Returned(t) => returned[t].state = alone[t].st

\* C20 amended: whatever the other thread does, the position, the channel
\* values, the checkpoint, the pending writes, the page state and the state
\* returned of a thread are those of the same conversation run alone, but
\* for the display id in ticket_message: the number the store's sequence
\* gives a ticket counts the tickets of all threads.
C20_ThreadsIndependentButDisplayId ==
    \A t \in Threads :
        /\ pc[t] = alone[t].pc
        /\ pend[t] = alone[t].pend
        /\ NoDisplayId(st[t]) = NoDisplayId(alone[t].st)
        /\ NoDisplayId(checkpoint[t]) = NoDisplayId(alone[t].st)
        /\ session[t].ticket_saved = alone[t].session.ticket_saved
        /\ NoDisplayId(session[t].state) = NoDisplayId(alone[t].session.state)
        /\ Returned(t) => NoDisplayId(returned[t].state) = NoDisplayId(alone[t].st)

\* both threads created a ticket; the second to do so holds TICKET-2 where
\* alone it holds TICKET-1
C20_Witness ==
    \E t \in Threads :
        /\ Returned(t)
        /\ TicketCreated(t)
        /\ Embeds(returned[t].state["ticket_message"], << "TICKET-", 2 >>)
        /\ Embeds(alone[t].st["ticket_message"], << "TICKET-", 1 >>)
        /\ \E o \in Threads \ {t} : Returned(o) /\ TicketCreated(o)

\* C21: an explicit create_ticket call of the page that met a store failure
\* does not mark a ticket as saved, and whenever the page has ticket_saved
\* set its state holds a ticket_id.
C21_FailedRaiseTicketNotSaved ==
    \A t \in Threads :
        /\ ticket_log[t].explicit.outcome = "store_failed" => ~session[t].ticket_saved
        /\ session[t].ticket_saved => Has(session[t].state, "ticket_id")

\* C23: a capability call that does not return is cut off by a timeout and
\* handled as a failure, so an invocation that has started is never left
\* waiting: the engine can always take its next step, up to the return.
C23_CallsBoundedByTimeout ==
    \A t \in Threads : pc[t] # "idle" => ENABLED Step(t)

\* C24: whatever the order in which the three classification units
\* completed, the state the gate reads holds the message and, of the
\* classification fields, exactly those returned by the units that
\* succeeded, each with the value its unit returned.
C24_GateReadsExactlyReturnedFields ==
    \A t \in Threads :
        pc[t] = "validate_topic" =>
            /\ Has(st[t], "message")
            /\ Restrict(st[t], ClassificationFields) = ApplyWrites(EmptyDict, pend[t])

\* the invocation of thread t has returned through a terminal stage
ReachedEnd(t) ==
    /\ pc[t] = "idle"
    /\ returned[t].kind = "state"
    /\ ran[t]["generate_answer"] + ran[t]["create_ticket"] = 1

\* C25: when every capability call returns or raises, an invocation that
\* has started returns through one of the two terminal stages, and no node
\* executes more than once in an invocation.
C25_InvocationReachesEnd ==
    /\ [] \A t \in Threads : \A n \in Nodes : ran[t][n] <= 1
    /\ [] \A t \in Threads : pc[t] # "idle" => ENABLED Step(t)
    /\ \A t \in Threads : (pc[t] # "idle") ~> ReachedEnd(t)

\* an invocation has returned a ticket through the ticketing stage, each
\* of its nodes having run once
C25_Witness ==
    \E t \in Threads :
        /\ ReachedEnd(t)
        /\ Get(returned[t].state, "message", "") # ""
        /\ Has(returned[t].state, "ticket_id")
        /\ ran[t] = [n \in Nodes |->
                       IF n \in {"retrieve_docs", "generate_answer"} THEN 0 ELSE 1]

\* C29: the page offers Raise Ticket under the result of a run only when
\* the answer stage of that run reached the judge and set needs_ticket_offer
\* (to true, as the offer requires): after a run that did not set it, no
\* explicit ticket creation is offered.
C29_OfferOnlyAfterFlaggingRun ==
    \A t \in Threads :
        (pc[t] = "idle" /\ entry[t] = "ui" /\ RaiseTicketOffered(t)) =>
            /\ ran[t]["generate_answer"] = 1
            /\ calls[t]["escalation_llm"] = 1

\* the terminal stages started in the invocation of thread t
TerminalStarts(t) == ran[t]["retrieve_docs"] + ran[t]["create_ticket"]

\* C30: in an invocation the gate runs at most once, and once when the
\* invocation has returned a state; the step in which it runs comes after
\* each of the three classification units has run once, and it is the step
\* that takes the routing decision: it plans the one terminal stage of the
\* invocation, which is started at most once, and only after the gate.
C30_GateRunsOnce ==
    /\ [] \A t \in Threads :
             /\ ran[t]["validate_topic"] <= 1
             /\ TerminalStarts(t) <= ran[t]["validate_topic"]
             /\ (pc[t] = "idle" /\ returned[t].kind = "state") =>
                    (ran[t]["validate_topic"] = 1 /\ TerminalStarts(t) = 1)
    /\ [][ \A t \in Threads :
              ran'[t]["validate_topic"] = ran[t]["validate_topic"] + 1 =>
                  /\ \A u \in Units : ran[t][u] = 1
                  /\ ran[t]["validate_topic"] = 0
                  /\ TerminalStarts(t) = 0
                  /\ pc'[t] = path_map(routing_function(st'[t]))
       ]_vars

\* the gate has run once after the three units and the answer stage, which
\* it planned, is half way
C30_Witness ==
    \E t \in Threads :
        /\ ran[t]["validate_topic"] = 1
        /\ \A u \in Units : ran[t][u] = 1
        /\ pc[t] = "generate_answer"
        /\ TerminalStarts(t) = 1

\* C31: an invocation whose message is the empty string does not call the
\* store insert.
C31_EmptyMessageInsertsNoTicket ==
    \A t \in Threads :
        (entry[t] # "none" /\ Get(st[t], "message", "none") = "") =>
            calls[t]["insert_ticket"] = 0

\* C33: every execution of create_ticket, in the graph or by the page, calls
\* the store insert, an invocation whose graph executed it counts exactly
\* one insert call, and when the insert returned a display id the returned
\* ticket_id, ticket_topic, ticket_query, ticket_sentiment, ticket_priority
\* and ticket_subject are the values passed to the insert.
C33_EachExecutionInsertsOnce ==
    \A t \in Threads : \A via \in {"graph", "explicit"} :
        ticket_log[t][via].outcome # "none" =>
            LET res == TicketResult(t, via)
                log == ticket_log[t][via]
            IN  /\ "insert_ticket" \in log.called
                /\ via = "graph" => calls[t]["insert_ticket"] = 1
                /\ log.outcome = "created" =>
                     /\ res["ticket_id"] = log.row.ticket_id
                     /\ res["ticket_topic"] = log.row.topic
                     /\ res["ticket_query"] = log.row.query
                     /\ res["ticket_sentiment"] = log.row.sentiment
                     /\ res["ticket_priority"] = log.row.priority
                     /\ res["ticket_subject"] = log.row.subject

\* C34: in the session of the page at most one explicit create_ticket call
\* that does not raise is made per submitted query: the page calls
\* create_ticket only while ticket_saved is false and no earlier call for
\* the query has returned, a call that returns sets ticket_saved, and
\* ticket_saved becomes false again only when a submitted query returns or
\* on Clear.
C34_OneExplicitTicketPerQuery ==
    [][\A t \in Threads :
         /\ ExplicitCall(t) =>
              /\ ~session[t].ticket_saved
              /\ ticket_log[t].explicit.outcome \in {"none", "raised"}
              /\ ticket_log'[t].explicit.outcome # "raised" => session'[t].ticket_saved
              /\ ticket_log'[t].explicit.outcome = "raised" => session'[t] = session[t]
         /\ (session[t].ticket_saved /\ ~session'[t].ticket_saved) =>
              \/ entry[t] = "ui" /\ pc[t] # "idle" /\ pc'[t] = "idle"
              \/ pc[t] = "idle" /\ pc'[t] = "idle" /\ session'[t] = EmptySession]_vars

\* an explicit call has returned for an answer that still offers escalation:
\* the ticket is saved and the button is no longer offered
C34_Witness ==
    \E t \in Threads :
        /\ ticket_log[t].explicit.outcome \in {"created", "store_failed"}
        /\ session[t].ticket_saved
        /\ Get(session[t].state, "needs_ticket_offer", FALSE) = TRUE
        /\ Get(session[t].state, "answer", "") # ""
        /\ ~RaiseTicketOffered(t)
        /\ pc[t] = "idle"
        /\ uuid_ctr < MaxTokens

\* C35: when create_ticket raises inside the graph, the node's write is
\* exactly the answer "Failed to create ticket due to server error.": the
\* state changes in answer only, no ticket field is added or changed, the
\* store insert is not called, and the invocation returns that state.
C35_RaisingTicketStageReportsFailure ==
    [][\A t \in Threads :
         ( /\ pc[t] = "create_ticket"
           /\ ran'[t]["create_ticket"] = ran[t]["create_ticket"] + 1
           /\ ticket_log'[t].graph.outcome = "raised" ) =>
             /\ st'[t] = Merge(st[t], Upd1("answer", NodeFailedAnswer))
             /\ Restrict(st'[t], TicketFields) = Restrict(st[t], TicketFields)
             /\ calls'[t]["insert_ticket"] = calls[t]["insert_ticket"]
             /\ pc'[t] = "idle"
             /\ returned'[t] = [kind |-> "state", state |-> st'[t]]]_vars

\* an invocation whose ticketing stage raised has returned the failure
\* answer and no ticket
C35_Witness ==
    \E t \in Threads :
        /\ ticket_log[t].graph.outcome = "raised"
        /\ Returned(t)
        /\ ran[t]["create_ticket"] = 1
        /\ returned[t].state["answer"] = NodeFailedAnswer
        /\ ~Has(returned[t].state, "ticket_id")
        /\ calls[t]["insert_ticket"] = 0

(* ---------------------------------------------------------------------- *)
(* The node functions on their own: a node function is applied to a state  *)
(* and a capability outcome drawn from the sets below.                     *)
(* ---------------------------------------------------------------------- *)
Opt(key, present, val) == IF present THEN Upd1(key, val) ELSE EmptyDict

\* the shapes a topic value can have, well-formed or not
TopicShapes ==
    { NoneVal, Val("dict_nolabel", "", TRUE), Val("dict", "<list>", FALSE) }
      \cup { Obj(l) : l \in TopicLabels }
      \cup { Val("dict", l, TRUE) : l \in TopicLabels \cup { "bogus" } }
      \cup { Val("str", l, TRUE) : l \in TopicLabels \cup { "", "bogus" } }

MessageOptions == { << FALSE, "" >>, << TRUE, "" >>, << TRUE, "m1" >> }

GateStates ==
    { Merge(Merge(Opt("message", m[1], m[2]), Upd1("topic", v)),
            Opt("is_topic_valid", b, TRUE)) :
        m \in MessageOptions, v \in TopicShapes, b \in BOOLEAN }
      \cup { Merge(Opt("message", m[1], m[2]), Opt("is_topic_valid", b, TRUE)) :
               m \in MessageOptions, b \in BOOLEAN }

UnitLabels(u) ==
    CASE u = "sentiment_analysis" -> SentimentLabels
      [] u = "topic_classification" -> TopicLabels
      [] OTHER -> PriorityLabels

UnitLLM(u) ==
    CASE u = "sentiment_analysis" -> "sentiment_llm"
      [] u = "topic_classification" -> "topic_llm"
      [] OTHER -> "priority_llm"

\* states a classifier can be given: with or without a message, with or
\* without an earlier value of its field and an earlier verdict
UnitStates(u) ==
    { Merge(Merge(Opt("message", m[1], m[2]),
                  Opt(UnitField(u), old, Obj(CHOOSE l \in UnitLabels(u) : TRUE))),
            Opt("is_topic_valid", b, TRUE)) :
        m \in MessageOptions, old \in BOOLEAN, b \in BOOLEAN }

AllOutcomes(u) == { Raised, NoneVal } \cup { Obj(l) : l \in UnitLabels(u) }

ProbeOf(fn, state, outcome) ==
    [fn |-> fn, state |-> state, outcome |-> outcome, done |-> FALSE,
     out |-> NodeResult(EmptyDict, {})]

\* n times the character c
Rep(c, n) == [i \in 1..n |-> c]

\* texts the generation capability can answer the subject prompt with:
\* leading white space and line breaks, a first line of any length up to
\* MaxTextLen, a line break of either kind or none, and further lines
TextLens == { 0, 1, 2 } \cup { n \in 0..MaxTextLen : n >= SubjectMax - 2 }

SubjectTexts ==
    { lead \o Rep("a", n) \o brk \o rest :
        lead \in { << >>, << " " >>, << "\n" >>, << "\t", "\n", " " >> },
        n \in TextLens,
        brk \in { << >>, << "\n" >>, << "\r", "\n" >>, << "\n", "\n" >> },
        rest \in { << >>, << "b", "\n" >>, << "\n", "c", " " >> } }

\* states create_ticket can be given: with or without a message and labels
TicketStates ==
    { Merge(Opt("message", m[1], m[2]), Opt("topic", b, Obj("unclear"))) :
        m \in MessageOptions, b \in BOOLEAN }

TicketProbes ==
    { ProbeOf("create_ticket", s, [subj |-> subj, ins |-> ins]) :
        s \in TicketStates,
        subj \in SubjOutcomes \cup { TextNone } \cup { TextMsg(x) : x \in SubjectTexts },
        ins \in InsOutcomes }

\* the shapes a classification field can hold: None, a tagged result, a
\* mapping with and without a label key, a raw string
LabelShapes(label) ==
    { NoneVal, Obj(label), Val("dict", label, TRUE), Val("dict_nolabel", "", TRUE),
      Val("str", label, TRUE) }

\* states whose classification fields are absent or hold one of the shapes
LabelStates ==
    { Merge(Merge(Opt("message", m[1], m[2]), Opt("topic", tp[1], tp[2])),
            Merge(Opt("sentiment", sn[1], sn[2]), Opt("priority", pr[1], pr[2]))) :
        m \in MessageOptions,
        tp \in { << FALSE, NoneVal >> } \cup { << TRUE, v >> : v \in LabelShapes("Lineage") },
        sn \in { << FALSE, NoneVal >> } \cup { << TRUE, v >> : v \in LabelShapes("Angry") },
        pr \in { << FALSE, NoneVal >> } \cup { << TRUE, v >> : v \in LabelShapes("P0") } }

LabelProbes ==
    { ProbeOf("create_ticket", s, [subj |-> subj, ins |-> ins]) :
        s \in LabelStates, subj \in { TextRaise, TextMsg(<< "S" >>) }, ins \in InsOutcomes }

\* the node of the graph on the states the gate can leave
TicketNodeProbes ==
    { ProbeOf("create_ticket_node", Merge(s, Opt("is_topic_valid", b, FALSE)),
              [subj |-> subj, ins |-> ins]) :
        s \in TicketStates, b \in BOOLEAN, subj \in SubjOutcomes, ins \in InsOutcomes }

\* states the answer stage can be given: with or without a message, with or
\* without the answer fields of an earlier run
AnswerStates ==
    { Merge(Merge(Opt("message", m[1], m[2]), Opt("answer", old, "old")),
            Merge(Opt("needs_ticket_offer", old, TRUE), Opt("docs", old, << "d0" >>))) :
        m \in MessageOptions, old \in BOOLEAN }

AllJudgeOutcomes == JudgeOutcomes \cup { Judge(TRUE, ""), Judge(FALSE, "fine") }

AllGenOutcomes == GenOutcomes \cup { GenText("") }

AnswerProbes ==
    { ProbeOf("generate_answer", s, [retr |-> retr, gen |-> gen, judge |-> judge]) :
        s \in AnswerStates, retr \in RetrOutcomes, gen \in AllGenOutcomes,
        judge \in AllJudgeOutcomes }
      \cup { ProbeOf("retrieve_docs", s, [retr |-> retr]) :
               s \in AnswerStates, retr \in RetrOutcomes }

\* states the routing function can be given: with or without a verdict,
\* whatever the topic
RoutingStates ==
    { Merge(Merge(Opt("message", m[1], m[2]), Opt("topic", tp, Obj("SSO"))),
            Opt("is_topic_valid", has, b)) :
        m \in MessageOptions, tp \in BOOLEAN, has \in BOOLEAN, b \in BOOLEAN }

ProbeInputs ==
    { ProbeOf("validate_topic", s, NoneVal) : s \in GateStates }
      \cup { ProbeOf("topic_label", s, NoneVal) : s \in GateStates }
      \cup { ProbeOf("routing_function", s, NoneVal) : s \in RoutingStates }
      \cup UNION { { ProbeOf(u, s, o) : s \in UnitStates(u), o \in AllOutcomes(u) } :
                   u \in Units }
      \cup TicketProbes
      \cup LabelProbes
      \cup TicketNodeProbes
      \cup AnswerProbes

InitNodes ==
    /\ InitWorkflow
    /\ budget = [t \in Threads |-> 0]
    /\ probe \in ProbeInputs

ProbeValidateTopic ==
    /\ probe.fn = "validate_topic"
    /\ ~probe.done
    /\ probe' = [probe EXCEPT !.done = TRUE, !.out = validate_topic(probe.state)]
    /\ UNCHANGED << checkpoint, pc, st, pend, ran, calls, base, entry, returned,
                    session, budget, uuid_ctr, ticket_seq, ticket_log, alone >>

ProbeClassifier(u) ==
    /\ probe.fn = u
    /\ ~probe.done
    /\ probe' = [probe EXCEPT !.done = TRUE,
                              !.out = UnitNode(u, probe.state, probe.outcome)]
    /\ UNCHANGED << checkpoint, pc, st, pend, ran, calls, base, entry, returned,
                    session, budget, uuid_ctr, ticket_seq, ticket_log, alone >>

\* create_ticket with the first token and the first number of the sequence
ProbeCreateTicket ==
    /\ probe.fn = "create_ticket"
    /\ ~probe.done
    /\ probe' = [probe EXCEPT !.done = TRUE,
                              !.out = create_ticket(probe.state, 1, probe.outcome.subj,
                                                    probe.outcome.ins, 1)]
    /\ UNCHANGED << checkpoint, pc, st, pend, ran, calls, base, entry, returned,
                    session, budget, uuid_ctr, ticket_seq, ticket_log, alone >>

ProbeCreateTicketNode ==
    /\ probe.fn = "create_ticket_node"
    /\ ~probe.done
    /\ probe' = [probe EXCEPT !.done = TRUE,
                              !.out = create_ticket_node(probe.state, 1, probe.outcome.subj,
                                                         probe.outcome.ins, 1)]
    /\ UNCHANGED << checkpoint, pc, st, pend, ran, calls, base, entry, returned,
                    session, budget, uuid_ctr, ticket_seq, ticket_log, alone >>

ProbeRetrieveDocs ==
    /\ probe.fn = "retrieve_docs"
    /\ ~probe.done
    /\ probe' = [probe EXCEPT !.done = TRUE,
                              !.out = retrieve_docs(probe.state, probe.outcome.retr)]
    /\ UNCHANGED << checkpoint, pc, st, pend, ran, calls, base, entry, returned,
                    session, budget, uuid_ctr, ticket_seq, ticket_log, alone >>

ProbeGenerateAnswer ==
    /\ probe.fn = "generate_answer"
    /\ ~probe.done
    /\ probe' = [probe EXCEPT !.done = TRUE,
                              !.out = generate_answer(probe.state, probe.outcome.retr,
                                                      probe.outcome.gen,
                                                      probe.outcome.judge)]
    /\ UNCHANGED << checkpoint, pc, st, pend, ran, calls, base, entry, returned,
                    session, budget, uuid_ctr, ticket_seq, ticket_log, alone >>

\* the conditional edge: the decision and the node path_map gives for it
ProbeRoutingFunction ==
    /\ probe.fn = "routing_function"
    /\ ~probe.done
    /\ probe' = [probe EXCEPT !.done = TRUE,
                              !.out = [decision |-> routing_function(probe.state),
                                       target |-> path_map(routing_function(probe.state))]]
    /\ UNCHANGED << checkpoint, pc, st, pend, ran, calls, base, entry, returned,
                    session, budget, uuid_ctr, ticket_seq, ticket_log, alone >>

\* the label the gate tests and the topic a ticket created from the same
\* state records
ProbeTopicLabel ==
    /\ probe.fn = "topic_label"
    /\ ~probe.done
    /\ probe' = [probe EXCEPT
                   !.done = TRUE,
                   !.out = [tested |-> gate_topic_label(probe.state),
                            verdict |-> validate_topic(probe.state),
                            ticket |-> create_ticket(probe.state, 1, TextRaise, InsertOk, 1)]]
    /\ UNCHANGED << checkpoint, pc, st, pend, ran, calls, base, entry, returned,
                    session, budget, uuid_ctr, ticket_seq, ticket_log, alone >>

NextNodes ==
    \/ ProbeValidateTopic
    \/ ProbeTopicLabel
    \/ ProbeRoutingFunction
    \/ \E u \in Units : ProbeClassifier(u)
    \/ ProbeCreateTicket
    \/ ProbeCreateTicketNode
    \/ ProbeRetrieveDocs
    \/ ProbeGenerateAnswer

SpecNodes == InitNodes /\ [][NextNodes]_vars

\* the verdict the gate is to give: the label of the topic, whatever holds
\* it, is one of the valid topics
LabelIsValid(state) ==
    /\ Has(state, "topic")
    /\ state["topic"].kind \in {"obj", "dict", "str"}
    /\ state["topic"].hashable
    /\ state["topic"].label \in valid_topics

\* C4: for every state validate_topic returns exactly {is_topic_valid: b}
\* with b true iff the topic label is one of the five valid topics; for the
\* other labels, an absent topic and a malformed topic value it returns
\* false, and it does not fail.
C4_GateTotalOnTopic ==
    (probe.fn = "validate_topic" /\ probe.done) =>
        /\ ~probe.out.raised
        /\ probe.out.upd = Upd1("is_topic_valid", LabelIsValid(probe.state))

\* C8: a classification unit returns the update of exactly its own field,
\* holding the label the capability returned, when the message is not empty
\* and the capability returned a label; otherwise the empty update.  It
\* calls its capability once when the message is not empty and not at all
\* when it is empty, and it does not fail.
C8_ClassifierWritesOwnFieldOnly ==
    (probe.fn \in Units /\ probe.done) =>
        LET message == Get(probe.state, "message", "")
            answered == probe.outcome.kind = "obj"
        IN  /\ ~probe.out.raised
            /\ probe.out.upd =
                 (IF message # "" /\ answered
                  THEN Upd1(UnitField(probe.fn), probe.outcome) ELSE EmptyDict)
            /\ probe.out.called = (IF message = "" THEN {} ELSE { UnitLLM(probe.fn) })

\* the topic classifier answered on a state that held an earlier topic and
\* an earlier verdict
C8_Witness ==
    /\ probe.fn = "topic_classification"
    /\ probe.done
    /\ Has(probe.state, "is_topic_valid")
    /\ Has(probe.state, "topic")
    /\ Get(probe.state, "message", "") # ""
    /\ probe.outcome.kind = "obj"
    /\ probe.out.upd = Upd1("topic", probe.outcome)

\* C12: for every text the generation capability returns for the subject
\* prompt, whatever its length, its line breaks and its leading white space,
\* create_ticket does not fail in the subject step, and the subject it passes
\* to the store has at most 200 characters and no line break ("\n"); when
\* the ticket is created, ticket_subject is that subject.
C12_SubjectOneLineAtMost200 ==
    ( /\ probe.fn = "create_ticket"
      /\ probe.done
      /\ probe.outcome.subj.kind = "msg"
      /\ probe.outcome.subj.is_text ) =>
        LET subject == probe.out.row.subject
        IN  /\ ~probe.out.raised
            /\ Len(subject) <= 200
            /\ \A i \in 1..Len(subject) : subject[i] # "\n"
            /\ probe.out.inserted =>
                  /\ Has(probe.out.state, "ticket_subject")
                  /\ probe.out.state["ticket_subject"] = subject

\* a text of more than 200 characters that starts with a line break and
\* has a second line gave a ticket whose subject has 200 characters
C12_Witness ==
    /\ probe.fn = "create_ticket"
    /\ probe.done
    /\ probe.outcome.subj.kind = "msg"
    /\ Len(probe.outcome.subj.content) > 200
    /\ Head(probe.outcome.subj.content) = "\n"
    /\ \E i \in 202..Len(probe.outcome.subj.content) :
          probe.outcome.subj.content[i] = "\n"
    /\ probe.out.inserted
    /\ Len(probe.out.state["ticket_subject"]) = 200

\* C14: when the message is not empty and neither the retrieval nor the
\* generation of the chain raised, generate_answer returns exactly answer,
\* docs, needs_ticket_offer and escalation_reason: answer is the text
\* generated, docs the documents of the chain, needs_ticket_offer and
\* escalation_reason the judge's escalate and explanation when the judge
\* returned a verdict, false and "" when it raised or returned nothing.  The
\* judge's failure leaves the answer the text generated.
C14_AnswerCarriesJudgeVerdict ==
    ( /\ probe.fn = "generate_answer"
      /\ probe.done
      /\ Get(probe.state, "message", "") # ""
      /\ ~probe.outcome.retr.raised
      /\ ~probe.outcome.gen.raised ) =>
        LET judge == probe.outcome.judge
            verdict == judge.kind = "obj"
            upd == probe.out.upd
        IN  /\ ~probe.out.raised
            /\ DOMAIN upd = {"answer", "docs", "needs_ticket_offer", "escalation_reason"}
            /\ upd["answer"] = probe.outcome.gen.text
            /\ upd["docs"] = probe.outcome.retr.docs
            /\ upd["needs_ticket_offer"] = (IF verdict THEN judge.escalate ELSE FALSE)
            /\ upd["escalation_reason"] = (IF verdict THEN judge.explanation ELSE "")
            /\ probe.out.called = {"retriever", "llm", "escalation_llm"}

\* the judge raised after a generation that succeeded, on a state that held
\* the offer of an earlier run
C14_Witness ==
    /\ probe.fn = "generate_answer"
    /\ probe.done
    /\ probe.outcome.judge.kind = "raise"
    /\ Get(probe.state, "needs_ticket_offer", FALSE) = TRUE
    /\ Has(probe.out.upd, "needs_ticket_offer")
    /\ probe.out.upd["needs_ticket_offer"] = FALSE
    /\ probe.out.upd["answer"] = "A"
    /\ probe.out.upd["docs"] = << "d1", "d2" >>

\* C17: the update a node of the graph returns holds only fields the node
\* sets: a classifier its own field, the gate is_topic_valid, retrieve_docs
\* docs, generate_answer the answer fields, and the ticketing node the
\* ticket fields or the failure answer; the update of the ticketing node
\* holds none of message, topic, sentiment, priority and is_topic_valid.
C17_NodesReturnPartialUpdates ==
    ( /\ probe.fn \in Units \cup {"validate_topic", "retrieve_docs", "generate_answer",
                                   "create_ticket_node"}
      /\ probe.done
      /\ ~probe.out.raised ) =>
        DOMAIN probe.out.upd \subseteq
            CASE probe.fn \in Units -> { UnitField(probe.fn) }
              [] probe.fn = "validate_topic" -> {"is_topic_valid"}
              [] probe.fn = "retrieve_docs" -> {"docs"}
              [] probe.fn = "generate_answer" -> AnswerFields
              [] probe.fn = "create_ticket_node" -> TicketFields \cup {"answer"}
              [] OTHER -> {}

\* C22: a failure of the retrieval capability in the answer stage counts as
\* no document found: retrieve_docs returns docs = [] and, when the retrieval
\* of the chain fails and the generation does not, generate_answer reaches
\* the generation capability, and returns the text generated (not the
\* failure message) with docs = [].
C22_RetrievalFailureIsZeroDocuments ==
    ( /\ probe.fn \in {"retrieve_docs", "generate_answer"}
      /\ probe.done
      /\ Get(probe.state, "message", "") # ""
      /\ probe.outcome.retr.raised
      /\ probe.fn = "generate_answer" => ~probe.outcome.gen.raised ) =>
        IF probe.fn = "retrieve_docs"
        THEN probe.out.upd = Upd1("docs", << >>)
        ELSE /\ "llm" \in probe.out.called
             /\ Get(probe.out.upd, "answer", "") = probe.outcome.gen.text
             /\ Get(probe.out.upd, "answer", "") # GenerationFailedAnswer
             /\ Get(probe.out.upd, "docs", << "none" >>) = << >>

\* C26: the routing decision is "valid", and the node that follows the gate
\* retrieve_docs, exactly when the state holds is_topic_valid = true; with
\* is_topic_valid false, absent or None the decision is "invalid" and the
\* node that follows is create_ticket.
C26_ValidIffVerdictTrue ==
    (probe.fn = "routing_function" /\ probe.done) =>
        LET verdict == Has(probe.state, "is_topic_valid") /\ probe.state["is_topic_valid"]
        IN  /\ probe.out.decision = (IF verdict THEN "valid" ELSE "invalid")
            /\ probe.out.target = (IF verdict THEN "retrieve_docs" ELSE "create_ticket")

\* a state without a verdict, whose topic is a valid one, was routed to the
\* ticketing stage
C26_Witness ==
    /\ probe.fn = "routing_function"
    /\ probe.done
    /\ ~Has(probe.state, "is_topic_valid")
    /\ Has(probe.state, "topic")
    /\ probe.out.decision = "invalid"
    /\ probe.out.target = "create_ticket"

\* C27: create_ticket passes to the store, as topic, sentiment and priority,
\* the label of a field that holds a tagged result or a mapping with a label
\* key, and General, Neutral, P2 for a field that is absent; as query the
\* message, and "No query provided." when the message is absent; a created
\* ticket holds these values; and create_ticket raises for none of the
\* shapes of these fields (it raises only on a subject that is no text).
C27_LabelsFromAnyShape ==
    (probe.fn = "create_ticket" /\ probe.done) =>
        LET row == probe.out.row
            extracted(key, value, default) ==
                /\ (Has(probe.state, key) /\ probe.state[key].kind \in {"obj", "dict"})
                      => value = probe.state[key].label
                /\ ~Has(probe.state, key) => value = default
        IN  /\ probe.out.raised => ~probe.outcome.subj.is_text
            /\ extracted("topic", row.topic, "General")
            /\ extracted("sentiment", row.sentiment, "Neutral")
            /\ extracted("priority", row.priority, "P2")
            /\ row.query = (IF Has(probe.state, "message") THEN probe.state["message"]
                            ELSE "No query provided.")
            /\ probe.out.inserted =>
                  /\ probe.out.state["ticket_topic"] = row.topic
                  /\ probe.out.state["ticket_sentiment"] = row.sentiment
                  /\ probe.out.state["ticket_priority"] = row.priority
                  /\ probe.out.state["ticket_query"] = row.query

\* a ticket created from a state without message and sentiment, whose topic
\* is a mapping and whose priority a tagged result
C27_Witness ==
    /\ probe.fn = "create_ticket"
    /\ probe.done
    /\ probe.out.inserted
    /\ DOMAIN probe.state = {"topic", "priority"}
    /\ probe.state["topic"].kind = "dict"
    /\ probe.state["priority"].kind = "obj"
    /\ probe.out.state["ticket_topic"] = "Lineage"
    /\ probe.out.state["ticket_sentiment"] = "Neutral"
    /\ probe.out.state["ticket_priority"] = "P0"
    /\ probe.out.state["ticket_query"] = "No query provided."

\* C28: when the generation capability raises or returns None for the
\* subject prompt, create_ticket does not fail, the subject is "Support
\* request", the store insert is called with that subject, and a ticket that
\* is created holds it as ticket_subject.
C28_SubjectFallsBack ==
    ( /\ probe.fn = "create_ticket"
      /\ probe.done
      /\ probe.outcome.subj.kind \in {"raise", "none"} ) =>
        /\ ~probe.out.raised
        /\ "insert_ticket" \in probe.out.called
        /\ probe.out.row.subject = SupportRequest
        /\ probe.out.inserted =>
              /\ TicketFields \subseteq DOMAIN probe.out.state
              /\ probe.out.state["ticket_subject"] = SupportRequest

\* the generation raised for the subject and the ticket was created
C28_Witness ==
    /\ probe.fn = "create_ticket"
    /\ probe.done
    /\ probe.outcome.subj.kind = "raise"
    /\ Get(probe.state, "message", "") # ""
    /\ probe.out.inserted
    /\ probe.out.state["ticket_subject"] = SupportRequest

\* C32: for a topic field that holds a tagged result, a mapping with a label
\* key or a raw string, the label validate_topic tests against the valid
\* topics is the label create_ticket records as ticket_topic.
C32_GateAndTicketReadSameLabel ==
    ( /\ probe.fn = "topic_label"
      /\ probe.done
      /\ Has(probe.state, "topic")
      /\ probe.state["topic"].kind \in {"obj", "dict", "str"}
      /\ probe.state["topic"].hashable ) =>
        /\ probe.out.ticket.inserted
        /\ probe.out.ticket.state["ticket_topic"] = probe.out.tested

====
